---- MODULE Spec2Model ----
(***************************************************************************)
(* Legal Lens: the serverless search API (statute extraction and mapping,  *)
(* relevance scoring, concept matching, answer synthesis) and the chat     *)
(* client that consumes the line-delimited event stream.                   *)
(*                                                                         *)
(* Strings are TLA+ strings; the JavaScript string methods the code uses   *)
(* are defined below as operators on them.  Scores are kept in integer     *)
(* ten-thousandths while they are accumulated (0.4 = 4000) and in integer  *)
(* thousandths once rounded (Math.round(score * 1000) / 1000).            *)
(***************************************************************************)
EXTENDS Integers, Sequences, FiniteSets, TLC

(***************************************************************************)
(* Bounds of the model.                                                    *)
(***************************************************************************)
\* largest number of whitespace-separated words in a modelled query
MaxQueryWords == 2

(***************************************************************************)
(* JavaScript values that are not strings or numbers.                      *)
(***************************************************************************)
Undefined == [kind |-> "undefined"]
Null == [kind |-> "null"]

(***************************************************************************)
(* JavaScript string methods.                                              *)
(***************************************************************************)
CharAt(s, i) == SubSeq(s, i, i)

UpperToLower ==
  ("A" :> "a") @@ ("B" :> "b") @@ ("C" :> "c") @@ ("D" :> "d") @@ ("E" :> "e") @@
  ("F" :> "f") @@ ("G" :> "g") @@ ("H" :> "h") @@ ("I" :> "i") @@ ("J" :> "j") @@
  ("K" :> "k") @@ ("L" :> "l") @@ ("M" :> "m") @@ ("N" :> "n") @@ ("O" :> "o") @@
  ("P" :> "p") @@ ("Q" :> "q") @@ ("R" :> "r") @@ ("S" :> "s") @@ ("T" :> "t") @@
  ("U" :> "u") @@ ("V" :> "v") @@ ("W" :> "w") @@ ("X" :> "x") @@ ("Y" :> "y") @@
  ("Z" :> "z")

\* String.prototype.toLowerCase
RECURSIVE toLowerCase(_)
toLowerCase(s) ==
  IF Len(s) = 0 THEN s
  ELSE IF Len(s) = 1 THEN (IF s \in DOMAIN UpperToLower THEN UpperToLower[s] ELSE s)
  ELSE LET h == Len(s) \div 2
       IN toLowerCase(SubSeq(s, 1, h)) \o toLowerCase(SubSeq(s, h + 1, Len(s)))

\* String.prototype.includes
includes(s, w) ==
  \E i \in 1..(Len(s) - Len(w) + 1) : SubSeq(s, i, i + Len(w) - 1) = w

\* String.prototype.startsWith
startsWith(s, p) == Len(s) >= Len(p) /\ SubSeq(s, 1, Len(p)) = p

\* String.prototype.slice(n) / substring(0, n)
slice(s, n) == SubSeq(s, n + 1, Len(s))
substring(s, n) == SubSeq(s, 1, IF n < Len(s) THEN n ELSE Len(s))

\* the characters \s matches among those the model uses
IsSpace(c) == c \in {" ", "\t", "\n"}
IsDigit(c) == c \in {"0", "1", "2", "3", "4", "5", "6", "7", "8", "9"}
IsLetter(c) == c \in DOMAIN UpperToLower \/ c \in {UpperToLower[u] : u \in DOMAIN UpperToLower}

\* String.prototype.trim
RECURSIVE trimStart(_)
trimStart(s) == IF Len(s) > 0 /\ IsSpace(CharAt(s, 1)) THEN trimStart(slice(s, 1)) ELSE s
RECURSIVE trimEnd(_)
trimEnd(s) ==
  IF Len(s) > 0 /\ IsSpace(CharAt(s, Len(s))) THEN trimEnd(SubSeq(s, 1, Len(s) - 1)) ELSE s
\* a handler that forgets to trim
trimNone(s) == s
trim(s) == trimEnd(trimStart(s))

\* String.prototype.indexOf, 1-based; 0 when absent
indexOf(s, w) ==
  IF includes(s, w)
  THEN CHOOSE i \in 1..(Len(s) - Len(w) + 1) :
         /\ SubSeq(s, i, i + Len(w) - 1) = w
         /\ \A j \in 1..(i - 1) : SubSeq(s, j, j + Len(w) - 1) # w
  ELSE 0

\* String.prototype.replace(pattern, replacement) with a string pattern:
\* only the first occurrence is replaced
replace(s, pat, rep) ==
  LET i == indexOf(s, pat)
  IN IF i = 0 THEN s
     ELSE SubSeq(s, 1, i - 1) \o rep \o SubSeq(s, i + Len(pat), Len(s))

\* String.prototype.split(/\s+/): the pieces between maximal runs of whitespace
RECURSIVE splitWhitespace(_)
splitWhitespace(s) ==
  IF \E i \in 1..Len(s) : IsSpace(CharAt(s, i))
  THEN LET i == CHOOSE i \in 1..Len(s) :
                  IsSpace(CharAt(s, i)) /\ \A j \in 1..(i - 1) : ~IsSpace(CharAt(s, j))
       IN <<SubSeq(s, 1, i - 1)>> \o splitWhitespace(trimStart(SubSeq(s, i, Len(s))))
  ELSE <<s>>

\* String.prototype.split(sep) with a separator of one character
RECURSIVE split(_, _)
split(s, sep) ==
  LET i == indexOf(s, sep)
  IN IF i = 0 THEN <<s>>
     ELSE <<SubSeq(s, 1, i - 1)>> \o split(SubSeq(s, i + 1, Len(s)), sep)

\* Array.prototype.slice(0, k): a negative k counts from the end
sliceTo(arr, k) ==
  LET end == IF k < 0 THEN (IF Len(arr) + k < 0 THEN 0 ELSE Len(arr) + k)
             ELSE (IF k > Len(arr) THEN Len(arr) ELSE k)
  IN SubSeq(arr, 1, end)

\* Array.prototype.slice(-k), k > 0
sliceLast(arr, k) ==
  SubSeq(arr, (IF Len(arr) > k THEN Len(arr) - k + 1 ELSE 1), Len(arr))

Min(a, b) == IF a < b THEN a ELSE b

(***************************************************************************)
(* The embedded knowledge-graph data.                                      *)
(***************************************************************************)
STATUTE_MAPPINGS ==
  ("302" :> [bns |-> "103", desc |-> "Punishment for murder"]) @@
  ("304" :> [bns |-> "105", desc |-> "Culpable homicide not amounting to murder"]) @@
  ("304A" :> [bns |-> "106", desc |-> "Causing death by negligence"]) @@
  ("307" :> [bns |-> "109", desc |-> "Attempt to murder"]) @@
  ("376" :> [bns |-> "63", desc |-> "Rape"]) @@
  ("377" :> [bns |-> "None", desc |-> "Unnatural offences (decriminalized)"]) @@
  ("420" :> [bns |-> "316", desc |-> "Cheating"]) @@
  ("498A" :> [bns |-> "84", desc |-> "Cruelty by husband or relatives"]) @@
  ("499" :> [bns |-> "354", desc |-> "Defamation"]) @@
  ("506" :> [bns |-> "349", desc |-> "Criminal intimidation"]) @@
  ("299" :> [bns |-> "100", desc |-> "Culpable homicide"]) @@
  ("300" :> [bns |-> "101", desc |-> "Murder"])

DOCUMENTS ==
  <<
    [doc_id |-> "jacob_mathew_2005",
     title |-> "Jacob Mathew vs State of Punjab (2005)",
     content |-> "This landmark case established the comprehensive law on medical negligence in India. \nThe Supreme Court held that a medical professional can only be held liable for negligence if:\n1. He did not possess the requisite skill which he professed to have\n2. He did not exercise reasonable care in its exercise\n\nKey guidelines for prosecuting medical professionals:\n- Private complaints cannot be entertained unless a prima facie case of negligence exists\n- Simple lack of care, error of judgment, or accident is not negligence\n- The doctor must be shown to have acted with gross negligence or recklessness",
     keywords |-> <<"medical negligence", "doctor liability", "malpractice", "prosecution", "304A">>,
     statutes |-> <<"IPC 304A", "BNS 106">>,
     year |-> 2005,
     court |-> "Supreme Court of India"],
    [doc_id |-> "puttaswamy_2017",
     title |-> "K.S. Puttaswamy vs Union of India (2017)",
     content |-> "The landmark Right to Privacy judgment. A nine-judge Constitution Bench unanimously held:\n\n1. Right to privacy is a fundamental right intrinsic to Article 21 (right to life)\n2. Privacy includes: bodily autonomy, personal identity, informational privacy, decisional privacy\n3. Privacy can be restricted only under a three-fold test:\n   - Legitimate state aim\n   - Law that is fair, just, and reasonable\n   - Proportionality\n\nThis judgment is foundational for data protection law in India.",
     keywords |-> <<"privacy", "fundamental right", "article 21", "data protection", "aadhaar">>,
     statutes |-> <<"Article 21", "Article 14", "Article 19">>,
     year |-> 2017,
     court |-> "Supreme Court of India"],
    [doc_id |-> "navtej_johar_2018",
     title |-> "Navtej Singh Johar vs Union of India (2018)",
     content |-> "The Supreme Court decriminalized homosexuality by reading down Section 377 of the IPC.\n\nKey holdings:\n1. Consensual sexual conduct between adults of the same sex in private is NOT a crime\n2. Section 377 is unconstitutional to the extent it criminalizes consensual homosexual acts\n3. LGBTQ+ individuals have equal rights under Articles 14, 19, and 21\n4. Constitutional morality must prevail over social morality",
     keywords |-> <<"section 377", "homosexuality", "LGBTQ", "decriminalization", "privacy", "equality">>,
     statutes |-> <<"IPC 377", "Article 14", "Article 21", "Article 19">>,
     year |-> 2018,
     court |-> "Supreme Court of India"],
    [doc_id |-> "kesavananda_bharati_1973",
     title |-> "Kesavananda Bharati vs State of Kerala (1973)",
     content |-> "The most important constitutional law case in India, establishing the Basic Structure Doctrine.\n\nKey holdings (7-6 majority):\n1. Parliament has power to amend ANY part of the Constitution\n2. BUT Parliament CANNOT destroy the Constitution's basic structure\n3. Basic structure includes:\n   - Fundamental rights\n   - Secularism\n   - Federalism\n   - Separation of powers\n   - Judicial review",
     keywords |-> <<"basic structure", "constitution", "amendment", "parliament power", "judicial review">>,
     statutes |-> <<"Article 368", "Article 13">>,
     year |-> 1973,
     court |-> "Supreme Court of India"],
    [doc_id |-> "vishaka_1997",
     title |-> "Vishaka vs State of Rajasthan (1997)",
     content |-> "Landmark case that laid down Vishaka Guidelines for prevention of sexual harassment at workplace.\n\nKey holdings:\n1. Sexual harassment at workplace violates Articles 14, 19(1)(g), and 21\n2. The court laid down binding guidelines known as 'Vishaka Guidelines'\n3. These guidelines have the force of law until proper legislation is enacted\n4. Employers must establish Internal Complaints Committees",
     keywords |-> <<"sexual harassment", "workplace", "vishaka guidelines", "women rights", "POSH">>,
     statutes |-> <<"Article 14", "Article 19", "Article 21", "POSH Act 2013">>,
     year |-> 1997,
     court |-> "Supreme Court of India"]
  >>

\* Object.entries order is the declaration order
KG_CONCEPTS ==
  << [id |-> "medical_negligence", judgments |-> <<"jacob_mathew_2005">>],
     [id |-> "privacy", judgments |-> <<"puttaswamy_2017", "navtej_johar_2018">>],
     [id |-> "right_to_privacy", judgments |-> <<"puttaswamy_2017">>],
     [id |-> "lgbtq_rights", judgments |-> <<"navtej_johar_2018">>],
     [id |-> "basic_structure", judgments |-> <<"kesavananda_bharati_1973">>],
     [id |-> "sexual_harassment", judgments |-> <<"vishaka_1997">>],
     [id |-> "fundamental_rights", judgments |-> <<"puttaswamy_2017", "kesavananda_bharati_1973">>],
     [id |-> "equality", judgments |-> <<"navtej_johar_2018", "vishaka_1997">>] >>

(***************************************************************************)
(* Search functions.                                                       *)
(***************************************************************************)
Str(s) == [kind |-> "string", value |-> s]
Num(n) == [kind |-> "number", value |-> n]

\* property names every object literal inherits from Object.prototype
ObjectPrototypeKeys ==
  {"constructor", "toString", "toLocaleString", "valueOf", "hasOwnProperty",
   "isPrototypeOf", "propertyIsEnumerable", "__proto__", "__defineGetter__",
   "__defineSetter__", "__lookupGetter__", "__lookupSetter__"}

\* a lookup that reports the old section as the new one
getStatuteMappingUnmapped(section) ==
  IF section \in DOMAIN STATUTE_MAPPINGS
  THEN [kind |-> "object", old_code |-> "IPC", old_section |-> section, new_code |-> "BNS",
        new_section |-> Str(section),
        title |-> Str(STATUTE_MAPPINGS[section].desc)]
  ELSE Null

\* STATUTE_MAPPINGS[section]: an own entry, else a member inherited from
\* Object.prototype (truthy, without bns and desc), else undefined
getStatuteMapping(section) ==
  IF section \in DOMAIN STATUTE_MAPPINGS
  THEN [kind |-> "object", old_code |-> "IPC", old_section |-> section, new_code |-> "BNS",
        new_section |-> Str(STATUTE_MAPPINGS[section].bns),
        title |-> Str(STATUTE_MAPPINGS[section].desc)]
  ELSE IF section \in ObjectPrototypeKeys
  THEN [kind |-> "object", old_code |-> "IPC", old_section |-> section, new_code |-> "BNS",
        new_section |-> Undefined, title |-> Undefined]
  ELSE Null

\* the index just after the run of whitespace that starts at i
RECURSIVE SkipWs(_, _)
SkipWs(s, i) == IF i <= Len(s) /\ IsSpace(CharAt(s, i)) THEN SkipWs(s, i + 1) ELSE i

\* the length of the run of digits that starts at i
RECURSIVE DigitsRun(_, _)
DigitsRun(s, i) == IF i <= Len(s) /\ IsDigit(CharAt(s, i)) THEN 1 + DigitsRun(s, i + 1) ELSE 0

StartsAt(s, i, p) == i + Len(p) - 1 <= Len(s) /\ SubSeq(s, i, i + Len(p) - 1) = p

\* (\d+[A-Za-z]?) matched greedily at i
CaptureAt(s, i) ==
  LET k == DigitsRun(s, i)
      letter == i + k <= Len(s) /\ IsLetter(CharAt(s, i + k))
  IN SubSeq(s, i, i + k - 1 + (IF letter THEN 1 ELSE 0))

\* /(?:IPC|ipc)\s*(?:section)?\s*(\d+[A-Za-z]?)/ : where the capture starts
\* when the pattern matches at p, 0 when it does not
Pattern1At(s, p) ==
  IF StartsAt(s, p, "IPC") \/ StartsAt(s, p, "ipc")
  THEN LET a == SkipWs(s, p + 3)
           b == IF StartsAt(s, a, "section") /\ DigitsRun(s, SkipWs(s, a + 7)) > 0
                THEN SkipWs(s, a + 7) ELSE a
       IN IF DigitsRun(s, b) > 0 THEN b ELSE 0
  ELSE 0

\* /(?:section|Section)\s*(\d+[A-Za-z]?)/
Pattern2At(s, p) ==
  IF StartsAt(s, p, "section") \/ StartsAt(s, p, "Section")
  THEN LET a == SkipWs(s, p + 7) IN IF DigitsRun(s, a) > 0 THEN a ELSE 0
  ELSE 0

\* /(\d+[A-Za-z]?)\s*(?:IPC|ipc)/ matched at p: the pairs <<digits, letter>>
\* the backtracking search accepts, the capture being the first one tried
\* (most digits first, with the letter before without it)
Pattern3Ends(s, p) ==
  {c \in (1..DigitsRun(s, p)) \X {0, 1} :
     /\ c[2] = 1 => (p + c[1] <= Len(s) /\ IsLetter(CharAt(s, p + c[1])))
     /\ LET e == SkipWs(s, p + c[1] + c[2])
        IN StartsAt(s, e, "IPC") \/ StartsAt(s, e, "ipc")}

Pattern3Capture(s, p) ==
  LET ends == Pattern3Ends(s, p)
      best == CHOOSE c \in ends :
                \A d \in ends : d[1] < c[1] \/ (d[1] = c[1] /\ d[2] <= c[2])
  IN SubSeq(s, p, p + best[1] + best[2] - 1)

\* String.prototype.match without the g flag takes the leftmost match:
\* the least of the positions the pattern matches at, 0 when there is none
FirstPos(positions) ==
  IF positions = {} THEN 0
  ELSE CHOOSE p \in positions : \A q \in positions : p <= q

\* an extractor that returns the capture of the match that starts first in
\* the text, whichever pattern it belongs to
extractStatuteFromQueryLeftmost(query) ==
  LET p1 == FirstPos({p \in 1..Len(query) : Pattern1At(query, p) > 0})
      p2 == FirstPos({p \in 1..Len(query) : Pattern2At(query, p) > 0})
      p3 == FirstPos({p \in 1..Len(query) : Pattern3Ends(query, p) # {}})
      starts == {p1, p2, p3} \ {0}
  IN IF starts = {} THEN Null
     ELSE LET least == FirstPos(starts)
          IN IF p1 = least THEN Str(CaptureAt(query, Pattern1At(query, p1)))
             ELSE IF p2 = least THEN Str(CaptureAt(query, Pattern2At(query, p2)))
             ELSE Str(Pattern3Capture(query, p3))

extractStatuteFromQuery(query) ==
  LET p1 == FirstPos({p \in 1..Len(query) : Pattern1At(query, p) > 0})
      p2 == FirstPos({p \in 1..Len(query) : Pattern2At(query, p) > 0})
      p3 == FirstPos({p \in 1..Len(query) : Pattern3Ends(query, p) # {}})
  IN IF p1 > 0 THEN Str(CaptureAt(query, Pattern1At(query, p1)))
     ELSE IF p2 > 0 THEN Str(CaptureAt(query, Pattern2At(query, p2)))
     ELSE IF p3 > 0 THEN Str(Pattern3Capture(query, p3))
     ELSE Null

(***************************************************************************)
(* new RegExp(word, 'g') for the words of the model: a word of letters,    *)
(* digits, "." and "(", with or without a final "?".  "." matches every    *)
(* character but a line break; a final "?" makes the character before it   *)
(* optional (taken when present); a "(" that no ")" closes makes the       *)
(* constructor throw a SyntaxError; every other character of these words   *)
(* matches itself.                                                         *)
(***************************************************************************)
RegExpThrows(word) == includes(word, "(") /\ ~includes(word, ")")

\* the word ends with the quantifier "?"
HasOptionalEnd(word) == Len(word) > 2 /\ CharAt(word, Len(word)) = "?"

\* the part of the pattern that every match contains
RequiredPart(word) ==
  IF HasOptionalEnd(word) THEN SubSeq(word, 1, Len(word) - 2) ELSE word

\* pattern character c matches the character of content at position i
CharMatchesAt(content, c, i) ==
  /\ i <= Len(content)
  /\ IF c = "." THEN CharAt(content, i) # "\n" ELSE CharAt(content, i) = c

PatternMatchesAt(content, word, i) ==
  IF includes(word, ".")
  THEN \A k \in 1..Len(word) : CharMatchesAt(content, CharAt(word, k), i + k - 1)
  ELSE SubSeq(content, i, i + Len(word) - 1) = word

\* the length of the match of the pattern at position i, 0 when there is none
MatchLengthAt(content, word, i) ==
  LET required == RequiredPart(word)
  IN IF ~PatternMatchesAt(content, required, i) THEN 0
     ELSE IF HasOptionalEnd(word)
             /\ CharMatchesAt(content, CharAt(word, Len(word) - 1), i + Len(required))
     THEN Len(required) + 1
     ELSE Len(required)

\* String.prototype.match with the g flag scans left to right and resumes
\* after each match.  ScanMatches walks the positions a..b with the next
\* position a match may start at, and yields <<matches, next position>>.
RECURSIVE ScanMatches(_, _, _, _, _)
ScanMatches(content, word, a, b, from) ==
  IF a > b THEN <<0, from>>
  ELSE IF a = b
  THEN IF a >= from /\ MatchLengthAt(content, word, a) > 0
       THEN <<1, a + MatchLengthAt(content, word, a)>> ELSE <<0, from>>
  ELSE LET mid == (a + b) \div 2
           l == ScanMatches(content, word, a, mid, from)
           r == ScanMatches(content, word, mid + 1, b, l[2])
       IN <<l[1] + r[1], r[2]>>

\* (content.match(new RegExp(word, 'g')) || []).length
matchCount(content, word) ==
  ScanMatches(content, word, 1, Len(content) - Len(RequiredPart(word)) + 1, 1)[1]

\* lower-cased fields of the documents (title, content, keywords)
LowerTitle == [i \in DOMAIN DOCUMENTS |-> toLowerCase(DOCUMENTS[i].title)]
LowerContent == [i \in DOMAIN DOCUMENTS |-> toLowerCase(DOCUMENTS[i].content)]
LowerKeywords ==
  [i \in DOMAIN DOCUMENTS |->
     [k \in DOMAIN DOCUMENTS[i].keywords |-> toLowerCase(DOCUMENTS[i].keywords[k])]]

\* what one query word adds to the score of document i, in ten-thousandths
WordScore(i, word) ==
  LET wordCount == matchCount(LowerContent[i], word)
  IN (IF includes(LowerTitle[i], word) THEN 4000 ELSE 0)
     + (IF \E k \in DOMAIN LowerKeywords[i] :
             includes(LowerKeywords[i][k], word) \/ includes(word, LowerKeywords[i][k])
        THEN 3500 ELSE 0)
     + (IF wordCount > 0 THEN Min(wordCount * 200, 1500) ELSE 0)

\* the words the queries of the model are made of
QueryWords ==
  {"medical", "Privacy", "the", "is", "vishaka", "...", "(2017", "IPC", "304A", "section"}

\* queries that name statutes: every section of the table after "IPC" and
\* at the end of a question, and texts that several patterns match
StatuteQuestion == "What is the punishment under section "
StatuteQueries ==
  {"IPC " \o k : k \in DOMAIN STATUTE_MAPPINGS}
    \cup {StatuteQuestion \o k \o "?" : k \in DOMAIN STATUTE_MAPPINGS}
    \cup {"section 302 IPC 304A", "420 ipc or Section 376", "302 IPC section 304A",
          "ipc section 420", "section 12 of 2005", "IPC 999", "all 5 judges"}

\* queries in everyday words
ConceptQueries == {"what is a right", "right to privacy and equality"}

\* queryLower.split(/\s+/).filter(w => w.length > 2)
queryWordsOf(query) ==
  SelectSeq(splitWhitespace(toLowerCase(query)), LAMBDA w : Len(w) > 2)

\* the lower-cased words of the queries of the model
ModelWords ==
  {toLowerCase(q) : q \in QueryWords}
    \cup UNION {{queryWordsOf(q)[k] : k \in DOMAIN queryWordsOf(q)} :
                   q \in StatuteQueries \cup ConceptQueries}

\* WordScore of the words of the model, computed once
WordScoreTable ==
  [i \in DOMAIN DOCUMENTS |-> [w \in ModelWords |-> WordScore(i, w)]]

WordScoreOf(i, word) ==
  IF word \in DOMAIN WordScoreTable[i] THEN WordScoreTable[i][word] ELSE WordScore(i, word)

\* the loop over queryWords
RECURSIVE SumWords(_, _)
SumWords(i, words) ==
  IF words = <<>> THEN 0 ELSE WordScoreOf(i, Head(words)) + SumWords(i, Tail(words))

\* a scorer that forgets the clamp
ClampScoreNone(score) == score
\* score = Math.min(score, 1.0)
ClampScore(score) == Min(score, 10000)

\* Math.round(score * 1000) / 1000, from ten-thousandths to thousandths
RoundScore(score) == (score + 5) \div 10

DocScore(i, words) == ClampScore(SumWords(i, words))

\* the loop over DOCUMENTS: the documents with a positive score, in the
\* order of the array; `docs` is the array as a sequence of corpus entries,
\* each named by its position in the source
RECURSIVE ScoreDocs(_, _)
ScoreDocs(docs, words) ==
  IF docs = <<>> THEN <<>>
  ELSE LET i == Head(docs)
           score == DocScore(i, words)
       IN (IF score > 0
           THEN << [doc_id |-> DOCUMENTS[i].doc_id,
                    title |-> DOCUMENTS[i].title,
                    content |-> substring(DOCUMENTS[i].content, 500),
                    score |-> RoundScore(score)] >>
           ELSE <<>>)
          \o ScoreDocs(Tail(docs), words)

\* a comparator that orders the lowest score first
compareFnAscending(a, b) == a.score - b.score
\* (a, b) => b.score - a.score
compareFn(a, b) == b.score - a.score

\* Array.prototype.sort(compareFn) is stable: an element moves in front of
\* another only when compareFn orders it strictly before
RECURSIVE InsertByScore(_, _)
InsertByScore(sorted, x) ==
  IF sorted = <<>> THEN <<x>>
  ELSE IF compareFn(Head(sorted), x) <= 0
       THEN <<Head(sorted)>> \o InsertByScore(Tail(sorted), x)
       ELSE <<x>> \o sorted

RECURSIVE SortByScore(_)
SortByScore(docs) ==
  IF docs = <<>> THEN <<>>
  ELSE InsertByScore(SortByScore(SubSeq(docs, 1, Len(docs) - 1)), docs[Len(docs)])

\* searchDocuments(query, topK) on the array `docs`: [throws |-> TRUE] when
\* new RegExp throws
searchDocuments(docs, query, topK) ==
  LET queryWords == queryWordsOf(query)
  IN IF \E k \in DOMAIN queryWords : RegExpThrows(queryWords[k])
     THEN [throws |-> TRUE, value |-> <<>>]
     ELSE [throws |-> FALSE,
           value |-> sliceTo(SortByScore(ScoreDocs(docs, queryWords)), topK)]

\* a search that leaves the DOCUMENTS array reversed
DocumentsAfterSearchReversed(docs) == [i \in DOMAIN docs |-> docs[Len(docs) + 1 - i]]
\* searchDocuments reads DOCUMENTS and its entries and assigns to neither:
\* the sort and the slice work on the local scoredDocs
DocumentsAfterSearch(docs) == docs

LowerToUpper == [l \in {UpperToLower[u] : u \in DOMAIN UpperToLower} |->
                   CHOOSE u \in DOMAIN UpperToLower : UpperToLower[u] = l]
toUpperCaseChar(c) == IF c \in DOMAIN LowerToUpper THEN LowerToUpper[c] ELSE c

\* conceptId.replace(/_/g, " ")
RECURSIVE underscoresToSpaces(_)
underscoresToSpaces(s) ==
  IF Len(s) = 0 THEN s
  ELSE (IF CharAt(s, 1) = "_" THEN " " ELSE CharAt(s, 1)) \o underscoresToSpaces(slice(s, 1))

RECURSIVE MatchConcepts(_, _)
MatchConcepts(i, queryLower) ==
  IF i > Len(KG_CONCEPTS) THEN <<>>
  ELSE LET conceptId == KG_CONCEPTS[i].id
           conceptName == underscoresToSpaces(conceptId)
           words == splitWhitespace(queryLower)
       IN (IF includes(queryLower, conceptName)
              \/ \E k \in DOMAIN words : includes(conceptId, words[k])
           THEN << [id |-> conceptId,
                    name |-> toUpperCaseChar(CharAt(conceptName, 1)) \o slice(conceptName, 1)] >>
           ELSE <<>>)
          \o MatchConcepts(i + 1, queryLower)

findConcepts(query) == sliceTo(MatchConcepts(1, toLowerCase(query)), 5)

(***************************************************************************)
(* The completion service call.                                            *)
(***************************************************************************)
\* JavaScript truthiness of the values the model uses
Falsy(v) ==
  \/ v.kind \in {"undefined", "null"}
  \/ (v.kind = "string" /\ v.value = "")
  \/ (v.kind = "number" /\ v.value = 0)
  \/ (v.kind = "boolean" /\ ~v.value)

\* what the completion request can come to: fetch rejects, the reply is not
\* 2xx, its body is not JSON, or it is a JSON object of one of these shapes
LLMReplies ==
  { [kind |-> "reject"],
    [kind |-> "status", ok |-> FALSE],
    [kind |-> "status", ok |-> TRUE, json |-> [kind |-> "invalid"]],
    [kind |-> "status", ok |-> TRUE, json |-> [kind |-> "object", data |-> [error |-> "x"]]],
    [kind |-> "status", ok |-> TRUE, json |-> [kind |-> "object", data |-> [choices |-> <<>>]]],
    [kind |-> "status", ok |-> TRUE,
     json |-> [kind |-> "object", data |-> [choices |-> << [index |-> 0] >>]]],
    [kind |-> "status", ok |-> TRUE,
     json |-> [kind |-> "object", data |-> [choices |-> << [message |-> [role |-> "assistant"]] >>]]],
    [kind |-> "status", ok |-> TRUE,
     json |-> [kind |-> "object",
               data |-> [choices |-> << [message |-> [content |-> Null]] >>]]],
    [kind |-> "status", ok |-> TRUE,
     json |-> [kind |-> "object",
               data |-> [choices |-> << [message |-> [content |-> Num(42)]] >>]]],
    [kind |-> "status", ok |-> TRUE,
     json |-> [kind |-> "object",
               data |-> [choices |-> << [message |-> [content |-> Str("Jacob Mathew (2005) held ...")]] >>]]] }

\* the part of callGroqLLM after fetch has settled with `reply`
callGroqLLMResult(reply) ==
  IF reply.kind = "reject" THEN Null                      \* caught
  ELSE IF ~reply.ok THEN Null
  ELSE IF reply.json.kind = "invalid" THEN Null           \* response.json() throws, caught
  ELSE LET data == reply.json.data
       IN IF "choices" \in DOMAIN data /\ Len(data.choices) > 0
          THEN IF "message" \notin DOMAIN data.choices[1] THEN Null   \* TypeError, caught
               ELSE IF "content" \in DOMAIN data.choices[1].message
                    THEN data.choices[1].message.content
                    ELSE Undefined
          ELSE Null

\* callGroqLLM(query, context): `reply` is consulted only when a key is set
callGroqLLM(key, reply) == IF Falsy(key) THEN Null ELSE callGroqLLMResult(reply)

\* JSON.stringify of an object literal leaves out the members that are undefined
\* (`optional` names the members whose value can be undefined)
JSONstringify(obj, optional) ==
  [k \in {f \in DOMAIN obj : f \notin optional \/ obj[f] # Undefined} |-> obj[k]]

(***************************************************************************)
(* Requests of the model.                                                  *)
(***************************************************************************)
RECURSIVE join(_, _)
join(words, sep) ==
  IF Len(words) = 0 THEN ""
  ELSE IF Len(words) = 1 THEN words[1]
  ELSE words[1] \o sep \o join(Tail(words), sep)

Queries ==
  {join(ws, " ") : ws \in UNION {[1..n -> QueryWords] : n \in 1..MaxQueryWords}}

\* query members of a request body: strings (some padded with whitespace,
\* some blank), or a member that is absent, null or not a string
BodyQueries ==
  {Str(q) : q \in Queries}
    \cup {Str("  " \o w \o "\n") : w \in QueryWords}
    \cup {Str(""), Str(" "), Str(" \t\n"), Undefined, Null, Num(7)}

TopKs == {Undefined, Num(-1), Num(0), Num(1), Num(3), Num(11)}

SearchBodies ==
  {[kind |-> "object", query |-> q, top_k |-> k] : q \in BodyQueries, k \in TopKs}
    \cup {Undefined, [kind |-> "invalid"]}

StatuteSegments ==
  DOMAIN STATUTE_MAPPINGS
    \cup {"", "999", "304a", "30", "IPC", "constructor", "toString", "__proto__"}

Events ==
  {[httpMethod |-> "POST", path |-> "/api/search", body |-> b] : b \in SearchBodies}
    \cup {[httpMethod |-> "POST", path |-> "/.netlify/functions/api/search",
           body |-> [kind |-> "object", query |-> Str(w), top_k |-> Undefined]] : w \in QueryWords}
    \cup {[httpMethod |-> "POST", path |-> "/api/search",
           body |-> [kind |-> "object", query |-> Str(q), top_k |-> Undefined]] :
            q \in StatuteQueries \cup ConceptQueries}
    \cup {[httpMethod |-> "GET", path |-> p \o s, body |-> Undefined] :
            p \in {"/api/statute/", "/api/statute/IPC/"}, s \in StatuteSegments}
    \cup {[httpMethod |-> m, path |-> p, body |-> Undefined] :
            m \in {"GET", "OPTIONS"},
            p \in {"", "/api", "/api/", "/.netlify/functions/api", "/api/search",
                   "/api/statute", "/api/unknown"}}

(***************************************************************************)
(* State.                                                                  *)
(***************************************************************************)
VARIABLES
  event,      \* the request the function was invoked with
  groqKey,    \* process.env.GROQ_API_KEY
  pc,         \* where the handler is: "idle", "start", "awaitLLM", "done"
  frame,      \* the handler's locals while it awaits callGroqLLM
  calls,      \* the functions the handler has invoked, in order
  llmReply,   \* what the completion request came to
  response,   \* what the handler returned
  documents,  \* the module-level array DOCUMENTS: its entries in their order
  served      \* the results of the first invocation, once the container is invoked again

\* the chat component (ChatInterface)
VARIABLES
  messages,       \* useState<Message[]>([])
  input,          \* useState('')
  isStreaming,    \* useState(false)
  streamingText,  \* useState('')
  error,          \* useState<string | null>(null)
  sends,          \* the sendMessage invocations that have not returned yet
  issued,         \* how many chat requests have been issued in all
  received,       \* how many lines of response bodies have arrived in all
  viewMode,       \* App's useState<ViewMode>('chat'): "chat" or "search"
  instance,       \* which mount of the chat component is (or was last) on screen
  localStorage    \* the item chat_history_<sessionId>

\* the search view (App)
VARIABLES
  searchQuery,    \* App's `query`: useState('')
  searchResults,  \* App's `results`: useState<SearchResponse | null>(null)
  loading,        \* useState(false)
  searchError,    \* App's useState<string | null>(null), the `error` of App
  searches,       \* the handleSearch invocations that have not returned yet
  searched        \* how many search requests have been issued in all

\* what the chat component has on screen
VARIABLES
  rendered        \* the parts and elements of the displayed messages, once rendered

\* the document viewer (App's viewingDoc and DocumentViewer)
VARIABLES
  viewingDoc,      \* App's useState<{docId, highlight?} | null>(null)
  viewerInstance,  \* which mount of DocumentViewer is (or was last) on screen
  viewerDocument,  \* DocumentViewer's `document`: useState<Document | null>(null)
  viewerLoading,   \* DocumentViewer's `loading`: useState(true)
  viewerError,     \* DocumentViewer's `error`: useState<string | null>(null)
  fetches,         \* the fetchDocument invocations that have not returned yet
  fetched          \* how many document requests have been issued in all

apiVars == <<event, groqKey, pc, frame, calls, llmReply, response, documents, served>>
chatVars == <<messages, input, isStreaming, streamingText, error, sends, issued,
              received, viewMode, instance, localStorage,
              searchQuery, searchResults, loading, searchError, searches, searched,
              rendered,
              viewingDoc, viewerInstance, viewerDocument, viewerLoading, viewerError,
              fetches, fetched>>
chatVarsOfChat == <<messages, input, isStreaming, streamingText, error, sends, issued,
                    received, viewMode, instance, localStorage>>
searchVars == <<searchQuery, searchResults, loading, searchError, searches, searched>>
vars == <<event, groqKey, pc, frame, calls, llmReply, response, documents, served,
          messages, input, isStreaming, streamingText, error, sends, issued,
          received, viewMode, instance, localStorage,
          searchQuery, searchResults, loading, searchError, searches, searched,
          rendered,
          viewingDoc, viewerInstance, viewerDocument, viewerLoading, viewerError,
          fetches, fetched>>
renderVars == <<rendered>>
viewerVars == <<viewingDoc, viewerInstance, viewerDocument, viewerLoading, viewerError,
                fetches, fetched>>

NoFrame == [kind |-> "none"]
NoResponse == [kind |-> "none"]
NoReply == [kind |-> "none"]
NoEvent == [kind |-> "none"]
NoItem == [kind |-> "none"]
NotServed == [kind |-> "none"]
NotRendered == [kind |-> "none"]

\* DOCUMENTS as the module defines it
DocumentsLoaded == [i \in DOMAIN DOCUMENTS |-> i]

\* the serverless function before an invocation
ApiIdle ==
  /\ event = NoEvent
  /\ groqKey = Undefined
  /\ pc = "idle"
  /\ frame = NoFrame
  /\ calls = <<>>
  /\ llmReply = NoReply
  /\ response = NoResponse
  /\ documents = DocumentsLoaded
  /\ served = NotServed

\* no document is being viewed
ViewerClosed ==
  /\ viewingDoc = Null
  /\ viewerInstance = 0
  /\ viewerDocument = Null
  /\ viewerLoading = TRUE
  /\ viewerError = Null
  /\ fetches = <<>>
  /\ fetched = 0

\* App as mounted: the chat component with no stored history, the search
\* view not used yet
ChatMounted ==
  /\ messages = <<>>
  /\ input = ""
  /\ isStreaming = FALSE
  /\ streamingText = ""
  /\ error = Null
  /\ sends = <<>>
  /\ issued = 0
  /\ received = 0
  /\ viewMode = "chat"
  /\ instance = 1
  /\ localStorage = NoItem
  /\ searchQuery = ""
  /\ searchResults = Null
  /\ loading = FALSE
  /\ searchError = Null
  /\ searches = <<>>
  /\ searched = 0
  /\ rendered = NotRendered
  /\ ViewerClosed

\* one invocation of the function: the event and the environment
Init ==
  /\ event \in Events
  /\ groqKey \in {Undefined, Str("gsk_test")}
  /\ pc = "start"
  /\ frame = NoFrame
  /\ calls = <<>>
  /\ llmReply = NoReply
  /\ response = NoResponse
  /\ documents = DocumentsLoaded
  /\ served = NotServed
  /\ ChatMounted

(***************************************************************************)
(* exports.handler                                                         *)
(***************************************************************************)
\* (event.path || "").replace("/.netlify/functions/api", "").replace("/api", "")
pathOf(ev) == replace(replace(ev.path, "/.netlify/functions/api", ""), "/api", "")

Reply(status, body) == [kind |-> "response", statusCode |-> status, body |-> body]

\* which branch of the handler takes the event
Route(ev) ==
  IF ev.httpMethod = "OPTIONS" THEN "options"
  ELSE IF pathOf(ev) = "" \/ pathOf(ev) = "/" THEN "health"
  ELSE IF pathOf(ev) = "/search" /\ ev.httpMethod = "POST" THEN "search"
  ELSE IF startsWith(pathOf(ev), "/statute/") /\ Len(split(pathOf(ev), "/")) >= 3 THEN "statute"
  ELSE "notfound"

HandleOptions ==
  /\ pc = "start" /\ Route(event) = "options"
  /\ response' = Reply(200, [kind |-> "text", value |-> ""])
  /\ pc' = "done"
  /\ UNCHANGED <<event, groqKey, frame, calls, llmReply, documents, served, chatVars>>

HandleHealth ==
  /\ pc = "start" /\ Route(event) = "health"
  /\ response' = Reply(200, [kind |-> "json", status |-> "ok", service |-> "Legal Lens API",
                             version |-> "2.0-netlify", documents |-> Len(DOCUMENTS)])
  /\ pc' = "done"
  /\ UNCHANGED <<event, groqKey, frame, calls, llmReply, documents, served, chatVars>>

\* JSON.parse(event.body || "{}")
parsedBody(ev) ==
  IF ev.body = Undefined THEN [kind |-> "object", query |-> Undefined, top_k |-> Undefined]
  ELSE ev.body

\* Math.min(body.top_k || 5, 10)
topKOf(body) == Min((IF Falsy(body.top_k) THEN 5 ELSE body.top_k.value), 10)

\* results.slice(0, 3).map(r => `**${r.title}**\n${r.content}`).join("\n\n")
contextStrOf(results) ==
  LET top == sliceTo(results, 3)
  IN join([i \in DOMAIN top |-> "**" \o top[i].title \o "**\n" \o top[i].content], "\n\n")

ServerError(msg) == Reply(500, [kind |-> "json", error |-> msg])

\* the search branch up to `await callGroqLLM(query, contextStr)`
HandleSearch ==
  /\ pc = "start" /\ Route(event) = "search"
  /\ LET body == parsedBody(event)
     IN IF body.kind = "invalid"
        THEN \* JSON.parse throws
             /\ response' = ServerError("Unexpected token")
             /\ pc' = "done"
             /\ UNCHANGED <<frame, calls, documents>>
        ELSE IF ~Falsy(body.query) /\ body.query.kind # "string"
        THEN \* (body.query || "").trim is not a function
             /\ response' = ServerError("trim is not a function")
             /\ pc' = "done"
             /\ UNCHANGED <<frame, calls, documents>>
        ELSE LET query == IF Falsy(body.query) THEN "" ELSE trim(body.query.value)
                 topK == topKOf(body)
             IN IF query = ""
                THEN /\ response' = Reply(400, [kind |-> "json", error |-> "Query required"])
                     /\ pc' = "done"
                     /\ UNCHANGED <<frame, calls, documents>>
                ELSE LET section == extractStatuteFromQuery(query)
                         statuteMapping == IF Falsy(section) THEN Null
                                           ELSE getStatuteMapping(section.value)
                         found == searchDocuments(documents, query, topK)
                     IN IF found.throws
                        THEN /\ response' = ServerError("Invalid regular expression")
                             /\ pc' = "done"
                             /\ frame' = NoFrame
                             /\ UNCHANGED documents
                             /\ calls' = <<"extractStatuteFromQuery">>
                                           \o (IF Falsy(section) THEN <<>> ELSE <<"getStatuteMapping">>)
                                           \o <<"searchDocuments">>
                        ELSE /\ frame' = [kind |-> "search", query |-> query, topK |-> topK,
                                          section |-> section,
                                          statuteMapping |-> statuteMapping,
                                          results |-> found.value,
                                          concepts |-> findConcepts(query),
                                          contextStr |-> contextStrOf(found.value)]
                             /\ pc' = "awaitLLM"
                             /\ calls' = <<"extractStatuteFromQuery">>
                                           \o (IF Falsy(section) THEN <<>> ELSE <<"getStatuteMapping">>)
                                           \o <<"searchDocuments", "findConcepts", "callGroqLLM">>
                                           \o (IF Falsy(groqKey) THEN <<>> ELSE <<"fetch">>)
                             /\ documents' = DocumentsAfterSearch(documents)
                             /\ UNCHANGED response
  /\ UNCHANGED <<event, groqKey, llmReply, served, chatVars>>

\* callGroqLLM settles and the search branch returns
HandleSearchReturn ==
  /\ pc = "awaitLLM"
  /\ \E reply \in (IF Falsy(groqKey) THEN {NoReply} ELSE LLMReplies) :
       /\ llmReply' = reply
       /\ response' = Reply(200, JSONstringify(
                         [kind |-> "json",
                          query |-> frame.query,
                          statute_mapping |-> frame.statuteMapping,
                          related_statutes |-> <<>>,
                          kg_concepts |-> frame.concepts,
                          results |-> frame.results,
                          total_results |-> Len(frame.results),
                          lightrag_answer |-> callGroqLLM(groqKey, reply)],
                         {"lightrag_answer"}))
  /\ pc' = "done"
  /\ UNCHANGED <<event, groqKey, frame, calls, documents, served, chatVars>>

HandleStatute ==
  /\ pc = "start" /\ Route(event) = "statute"
  /\ LET parts == split(pathOf(event), "/")
         section == parts[Len(parts)]
         mapping == getStatuteMapping(section)
     IN /\ response' = IF ~Falsy(mapping)
                       THEN Reply(200, JSONstringify(mapping, {"new_section", "title"}))
                       ELSE Reply(404, [kind |-> "json",
                                        error |-> "No mapping for section " \o section])
        /\ calls' = <<"getStatuteMapping">>
  /\ pc' = "done"
  /\ UNCHANGED <<event, groqKey, frame, llmReply, documents, served, chatVars>>

HandleNotFound ==
  /\ pc = "start" /\ Route(event) = "notfound"
  /\ response' = Reply(404, [kind |-> "json", error |-> "Not found", path |-> pathOf(event)])
  /\ pc' = "done"
  /\ UNCHANGED <<event, groqKey, frame, calls, llmReply, documents, served, chatVars>>

\* the warm container is invoked again with the same search request: the
\* module-level state stays, the handler starts afresh
InvokeAgain ==
  /\ pc = "done" /\ Route(event) = "search" /\ frame # NoFrame
  /\ served = NotServed
  /\ served' = [kind |-> "results", value |-> frame.results]
  /\ pc' = "start"
  /\ frame' = NoFrame
  /\ calls' = <<>>
  /\ llmReply' = NoReply
  /\ response' = NoResponse
  /\ UNCHANGED <<event, groqKey, documents, chatVars>>

Next ==
  \/ HandleOptions
  \/ HandleHealth
  \/ HandleSearch
  \/ HandleSearchReturn
  \/ HandleStatute
  \/ HandleNotFound
  \/ InvokeAgain

Spec == Init /\ [][Next]_vars

(***************************************************************************)
(* Properties of the search API.                                           *)
(***************************************************************************)
SearchReturned == Route(event) = "search" /\ pc = "done" /\ response.statusCode = 200

\* the request body is a JSON object whose query is a string that is not blank
HasQueryString ==
  /\ parsedBody(event).kind = "object"
  /\ parsedBody(event).query.kind = "string"
  /\ \E i \in 1..Len(parsedBody(event).query.value) :
       ~IsSpace(CharAt(parsedBody(event).query.value, i))

\* top_k clamped into [1,10], 5 when it is omitted
ClampedTopK(k) ==
  IF k = Undefined THEN 5
  ELSE IF k.value < 1 THEN 1
  ELSE IF k.value > 10 THEN 10
  ELSE k.value

\* C1: a search with a non-empty query returns at most top_k results, top_k
\* being clamped into [1,10] and 5 when omitted.
C1_ResultsWithinClampedTopK ==
  (SearchReturned /\ HasQueryString)
    => Len(response.body.results) <= ClampedTopK(parsedBody(event).top_k)

\* document i has a query token in its title, among its keywords (either
\* containing the other) or in its body, the token taken as plain text
TokenAppears(i, word) ==
  \/ includes(LowerTitle[i], word)
  \/ \E k \in DOMAIN LowerKeywords[i] :
       includes(LowerKeywords[i][k], word) \/ includes(word, LowerKeywords[i][k])
  \/ includes(LowerContent[i], word)

\* C2: a document in which no query token (tokens of length <= 2 discarded)
\* appears in the title, the keywords or the body is absent from the result
\* list of searchDocuments.
C2_UnmatchedDocumentAbsent ==
  (pc = "awaitLLM") =>
    \A i \in DOMAIN DOCUMENTS :
      (\A k \in DOMAIN queryWordsOf(frame.query) :
         ~TokenAppears(i, queryWordsOf(frame.query)[k]))
        => \A r \in DOMAIN frame.results : frame.results[r].doc_id # DOCUMENTS[i].doc_id

\* C3: scoring, extraction and concept matching never raise, so a search
\* with a non-empty string query never ends in the 500 response.
C3_SearchNeverFails ==
  (Route(event) = "search" /\ pc = "done" /\ HasQueryString) => response.statusCode # 500

\* the section a statute request names: the last segment of its path
RequestedSection == LET parts == split(pathOf(event), "/") IN parts[Len(parts)]

\* C6: GET /statute/{section} answers 200 only for a section of the mapping
\* table and 404 for every other section.
C6_StatuteFoundIffInTable ==
  (Route(event) = "statute" /\ pc = "done") =>
    /\ response.statusCode \in {200, 404}
    /\ response.statusCode = 200 <=> RequestedSection \in DOMAIN STATUTE_MAPPINGS

\* the completion service produced an answer text: a 2xx reply whose body is
\* JSON with a string in choices[0].message.content
AnswerProduced(reply) ==
  /\ reply.kind = "status" /\ reply.ok
  /\ reply.json.kind = "object"
  /\ "choices" \in DOMAIN reply.json.data /\ Len(reply.json.data.choices) > 0
  /\ "message" \in DOMAIN reply.json.data.choices[1]
  /\ "content" \in DOMAIN reply.json.data.choices[1].message
  /\ reply.json.data.choices[1].message.content.kind = "string"

\* C8: whatever the completion service does, the search answers 200 with the
\* scored results; a missing credential, a transport error, a non-2xx reply
\* and a malformed reply each yield a null answer field.
C8_SearchSucceedsAnswerNull ==
  (Route(event) = "search" /\ pc = "done" /\ frame # NoFrame) =>
    /\ response.statusCode = 200
    /\ response.body.results = frame.results
    /\ (Falsy(groqKey) \/ ~AnswerProduced(llmReply)) =>
         /\ "lightrag_answer" \in DOMAIN response.body
         /\ response.body.lightrag_answer = Null

\* the query of the request is missing, empty or only whitespace
HasBlankQuery ==
  /\ parsedBody(event).kind = "object"
  /\ \/ parsedBody(event).query = Undefined
     \/ /\ parsedBody(event).query.kind = "string"
        /\ \A i \in 1..Len(parsedBody(event).query.value) :
             IsSpace(CharAt(parsedBody(event).query.value, i))

\* C9: a search whose query is missing, empty or whitespace-only is answered
\* with 400 and invokes neither searchDocuments nor the completion service.
C9_BlankQueryRejected ==
  (Route(event) = "search" /\ pc # "start" /\ HasBlankQuery)
    => /\ pc = "done"
       /\ response.statusCode = 400
       /\ \A c \in DOMAIN calls : calls[c] \notin {"searchDocuments", "callGroqLLM", "fetch"}

C9_Witness ==
  /\ Route(event) = "search" /\ pc = "done"
  /\ parsedBody(event).kind = "object"
  /\ parsedBody(event).query = Str(" \t\n")
  /\ response.statusCode = 400

\* C10: every score of every result list of searchDocuments lies in [0,1]
\* (0..1000 thousandths).
C10_ScoresInUnitInterval ==
  (pc = "awaitLLM") =>
    \A r \in DOMAIN frame.results :
      frame.results[r].score >= 0 /\ frame.results[r].score <= 1000

\* a document whose contributions add up to more than 1.0 is returned with 1.0
C10_Witness ==
  /\ pc = "awaitLLM"
  /\ \E r \in DOMAIN frame.results :
       /\ frame.results[r].score = 1000
       /\ \E i \in DOMAIN DOCUMENTS :
            /\ DOCUMENTS[i].doc_id = frame.results[r].doc_id
            /\ SumWords(i, queryWordsOf(frame.query)) > 10000

(***************************************************************************)
(* Further properties of the search functions.                             *)
(***************************************************************************)
\* the position of a result's document in DOCUMENTS
CorpusIndex(result) == CHOOSE i \in DOMAIN DOCUMENTS : DOCUMENTS[i].doc_id = result.doc_id

\* C11: the result list of searchDocuments is sorted by score in
\* non-increasing order, and documents with equal scores keep their corpus
\* order.
C11_SortedStableByScore ==
  (pc = "awaitLLM") =>
    \A r \in DOMAIN frame.results : \A s \in DOMAIN frame.results :
      r < s =>
        \/ frame.results[r].score > frame.results[s].score
        \/ /\ frame.results[r].score = frame.results[s].score
           /\ CorpusIndex(frame.results[r]) < CorpusIndex(frame.results[s])

\* a result list in which the sort moved a later document to the front and
\* left two documents of equal score in corpus order
C11_Witness ==
  /\ pc = "awaitLLM"
  /\ \E r \in DOMAIN frame.results : \E s \in DOMAIN frame.results :
       /\ r < s
       /\ frame.results[r].score > frame.results[s].score
       /\ CorpusIndex(frame.results[r]) > CorpusIndex(frame.results[s])
  /\ \E r \in DOMAIN frame.results : \E s \in DOMAIN frame.results :
       /\ r < s
       /\ frame.results[r].score = frame.results[s].score

\* pattern k (1: IPC-then-number, 2: section-then-number, 3: number-then-IPC)
\* matches the text at position p
PatternMatchesFrom(k, text, p) ==
  IF k = 1 THEN Pattern1At(text, p) > 0
  ELSE IF k = 2 THEN Pattern2At(text, p) > 0
  ELSE Pattern3Ends(text, p) # {}

\* the positions at which pattern k matches the text
MatchPositions(k, text) == {p \in 1..Len(text) : PatternMatchesFrom(k, text, p)}

\* the section pattern k captures in its leftmost match
LeftmostCapture(k, text) ==
  LET p == FirstPos(MatchPositions(k, text))
  IN IF k = 1 THEN CaptureAt(text, Pattern1At(text, p))
     ELSE IF k = 2 THEN CaptureAt(text, Pattern2At(text, p))
     ELSE Pattern3Capture(text, p)

\* the patterns that match somewhere in the text
MatchingPatterns(text) == {k \in 1..3 : MatchPositions(k, text) # {}}

\* C12: extractStatuteFromQuery returns the section captured by the first
\* pattern, in the order IPC-then-number, section-then-number,
\* number-then-IPC, that matches anywhere in the text, wherever the other
\* patterns match, and nothing when no pattern matches.
C12_FirstPatternInPriorityOrder ==
  (pc = "awaitLLM") =>
    IF MatchingPatterns(frame.query) = {}
    THEN frame.section = Null
    ELSE LET first == CHOOSE k \in MatchingPatterns(frame.query) :
                        \A j \in MatchingPatterns(frame.query) : k <= j
         IN frame.section = Str(LeftmostCapture(first, frame.query))

\* the first pattern matched after the place where a later pattern matches,
\* and its section was returned
C12_Witness ==
  /\ pc = "awaitLLM"
  /\ frame.query = "section 302 IPC 304A"
  /\ MatchingPatterns(frame.query) = {1, 2, 3}
  /\ FirstPos(MatchPositions(2, frame.query)) < FirstPos(MatchPositions(1, frame.query))
  /\ frame.section = Str("304A")

\* the query names section k after "IPC", or at the end of a question
NamesSection(query, k) ==
  query = "IPC " \o k \/ query = StatuteQuestion \o k \o "?"

\* C13: for every section K of the mapping table, a query of the form
\* "IPC K" or "... section K?" yields the statute_mapping IPC K -> BNS with
\* the table's new section and description for K.
C13_TableSectionsAreMapped ==
  (SearchReturned /\ HasQueryString) =>
    \A k \in DOMAIN STATUTE_MAPPINGS :
      NamesSection(response.body.query, k) =>
        response.body.statute_mapping =
          [kind |-> "object", old_code |-> "IPC", old_section |-> k, new_code |-> "BNS",
           new_section |-> Str(STATUTE_MAPPINGS[k].bns),
           title |-> Str(STATUTE_MAPPINGS[k].desc)]

\* the question about section 302 was answered with BNS 103
C13_Witness ==
  /\ SearchReturned
  /\ response.body.query = StatuteQuestion \o "302" \o "?"
  /\ response.body.statute_mapping.new_section = Str("103")

\* the tokens of a concept identifier: the identifier itself and the words
\* of its name
ConceptTokens(conceptId) ==
  LET words == splitWhitespace(underscoresToSpaces(conceptId))
  IN {conceptId} \cup {words[k] : k \in DOMAIN words}

\* the concept's name is a substring of the lowercased query, or the
\* identifier shares a token with it
ConceptMatches(conceptId, queryLower) ==
  \/ includes(queryLower, underscoresToSpaces(conceptId))
  \/ \E k \in DOMAIN splitWhitespace(queryLower) :
       splitWhitespace(queryLower)[k] \in ConceptTokens(conceptId)

\* the identifiers of the matching concepts, in declaration order
RECURSIVE MatchingConceptIds(_, _)
MatchingConceptIds(i, queryLower) ==
  IF i > Len(KG_CONCEPTS) THEN <<>>
  ELSE (IF ConceptMatches(KG_CONCEPTS[i].id, queryLower)
        THEN <<KG_CONCEPTS[i].id>> ELSE <<>>)
       \o MatchingConceptIds(i + 1, queryLower)

\* C14: findConcepts returns a concept only if its name is a substring of
\* the lowercased query or its identifier shares a token with it, and it
\* returns the first five such concepts in declaration order.
C14_ConceptsMatchByNameOrToken ==
  (pc = "awaitLLM") =>
    [c \in DOMAIN frame.concepts |-> frame.concepts[c].id]
      = sliceTo(MatchingConceptIds(1, toLowerCase(frame.query)), 5)

\* C20: searchDocuments run again with the same query and bound returns
\* the list it returned before: same documents, same order, same scores.
C20_SearchIsRepeatable ==
  (pc = "awaitLLM" /\ served # NotServed) => frame.results = served.value

\* the second run of a search whose results were reordered and include a tie
C20_Witness ==
  /\ pc = "awaitLLM" /\ served # NotServed
  /\ frame.query = "the"
  /\ Len(frame.results) = 5
  /\ frame.results[2].score = frame.results[3].score

(***************************************************************************)
(* The chat component: sendMessage and the response stream.                *)
(***************************************************************************)
\* what reaches App in one session: chat and search requests issued, times
\* the chat view is left, lines of chat response bodies received
MaxChatEvents == 4

\* what the user types into the textarea
ChatInputs == {"", "  ", "hi "}

Bool(b) == [kind |-> "boolean", value |-> b]
Arr(items) == [kind |-> "array", items |-> items]
Obj(fields) == [kind |-> "object", fields |-> fields]

\* JSON.parse on the payloads of the model; every other text makes it throw
ParsedPayloads ==
  ("{\"text\":\"Hello\"}" :> Obj([text |-> Str("Hello")])) @@
  ("{\"text\":\" world\"}" :> Obj([text |-> Str(" world")])) @@
  ("{\"done\":true,\"citations\":[{\"title\":\"Case X\",\"docId\":\"x\"}],\"sources\":[{\"docId\":\"x\",\"title\":\"Case X\",\"score\":0.9}]}" :>
     Obj([done |-> Bool(TRUE),
          citations |-> Arr(<<[title |-> "Case X", docId |-> "x"]>>),
          sources |-> Arr(<<[docId |-> "x", title |-> "Case X", score |-> 900]>>)])) @@
  ("{\"done\":true}" :> Obj([done |-> Bool(TRUE)])) @@
  ("{\"text\":\"!\",\"citations\":[{\"title\":\"Case Y\",\"docId\":\"y\"}]}" :>
     Obj([text |-> Str("!"),
          citations |-> Arr(<<[title |-> "Case Y", docId |-> "y"]>>)])) @@
  ("null" :> Null)

JSONparse(data) ==
  IF data \in DOMAIN ParsedPayloads
  THEN [ok |-> TRUE, value |-> ParsedPayloads[data]]
  ELSE [ok |-> FALSE]

\* the lines a response body is made of: records with the marker, one cut
\* short, one that is the JSON null, and a line without the marker
StreamLines ==
  {"data: " \o p : p \in DOMAIN ParsedPayloads}
    \cup {"data: {\"text\":\"Hel", ": keep-alive"}

\* parsed.member, undefined when the object has no such member
Member(obj, name) == IF name \in DOMAIN obj.fields THEN obj.fields[name] ELSE Undefined

EmptyMetadata == [citations |-> Undefined, sources |-> Undefined]

\* a consumer that keeps the metadata of the first terminal record
consumeLineKeepFirst(acc, line) ==
  IF ~startsWith(line, "data: ") THEN acc
  ELSE LET p == JSONparse(slice(line, 6))
       IN IF ~p.ok \/ p.value.kind # "object" THEN acc
          ELSE LET text == Member(p.value, "text")
                   acc1 == IF Falsy(text) THEN acc
                           ELSE [acc EXCEPT !.fullText = @ \o text.value]
               IN IF Falsy(Member(p.value, "done")) \/ acc.finalMetadata # EmptyMetadata
                  THEN acc1
                  ELSE [acc1 EXCEPT !.finalMetadata =
                          [citations |-> Member(p.value, "citations"),
                           sources |-> Member(p.value, "sources")]]

\* the body of `for (const line of lines)`: a line without the marker, a
\* payload JSON.parse rejects and a payload that is not an object (reading a
\* member of null throws inside the try) leave the accumulator as it is
consumeLine(acc, line) ==
  IF ~startsWith(line, "data: ") THEN acc
  ELSE LET p == JSONparse(slice(line, 6))
       IN IF ~p.ok \/ p.value.kind # "object" THEN acc
          ELSE LET text == Member(p.value, "text")
                   acc1 == IF Falsy(text) THEN acc
                           ELSE [acc EXCEPT !.fullText = @ \o text.value]
               IN IF Falsy(Member(p.value, "done")) THEN acc1
                  ELSE [acc1 EXCEPT !.finalMetadata =
                          [citations |-> Member(p.value, "citations"),
                           sources |-> Member(p.value, "sources")]]

RECURSIVE consumeLines(_, _)
consumeLines(acc, lines) ==
  IF lines = <<>> THEN acc ELSE consumeLines(consumeLine(acc, Head(lines)), Tail(lines))

\* text.split('\n') and the loop, from fullText = '' and finalMetadata = {}
consumeBody(text) ==
  consumeLines([fullText |-> "", finalMetadata |-> EmptyMetadata], split(text, "\n"))

\* the body text the server sends for a sequence of lines
bodyText(lines) == join(lines, "\n")

\* the bodies the model delivers, and what the loop makes of each
Bodies == UNION {[1..n -> StreamLines] : n \in 0..(MaxChatEvents - 1)}
ConsumedBodies == [lines \in Bodies |-> consumeBody(bodyText(lines))]
consumeDelivered(lines) ==
  IF lines \in Bodies THEN ConsumedBodies[lines] ELSE consumeBody(bodyText(lines))

userMessageOf(inp) == [role |-> "user", content |-> trim(inp)]

\* an assistant message that always carries a list of citations
assistantMessageOfAlwaysCites(acc) ==
  [role |-> "assistant", content |-> acc.fullText,
   citations |-> IF acc.finalMetadata.citations = Undefined THEN Arr(<<>>)
                 ELSE acc.finalMetadata.citations,
   sources |-> acc.finalMetadata.sources]

assistantMessageOf(acc) ==
  [role |-> "assistant", content |-> acc.fullText,
   citations |-> acc.finalMetadata.citations, sources |-> acc.finalMetadata.sources]

\* a history that is not cut: every message of the conversation
historyOfWhole(msgs) ==
  [i \in DOMAIN msgs |-> [role |-> msgs[i].role, content |-> msgs[i].content]]

\* messages.slice(-10).map(m => ({ role: m.role, content: m.content }))
historyOf(msgs) ==
  LET last == sliceLast(msgs, 10)
  IN [i \in DOMAIN last |-> [role |-> last[i].role, content |-> last[i].content]]

ErrorText == Str("Failed to send message. Please try again.")

\* the invocations of sendMessage that are awaiting their request
InFlight == DOMAIN sends

\* the requests issued, the times the chat view was left and the lines
\* received, so far
ChatEvents ==
  issued + (instance - 1) + (IF viewMode = "search" THEN 1 ELSE 0) + received + searched

\* the component that issued invocation i is still mounted, so that the
\* invocation's state updates take effect
Live(i) == viewMode = "chat" /\ sends[i].instance = instance

\* a save effect that also writes the empty list
saveEffectAlways(msgs, item) == [kind |-> "item", value |-> msgs]

\* the save effect: if (messages.length > 0) localStorage.setItem(...).
\* JSON.stringify drops the undefined citations and sources, and reading the
\* absent member of the parsed message gives undefined again; contents are
\* strings and metadata came out of JSON.parse, so the stored value reads
\* back as the same messages
saveEffect(msgs, item) == IF Len(msgs) > 0 THEN [kind |-> "item", value |-> msgs] ELSE item

\* the async function returns: invocation i is over
Returned(i) == [j \in DOMAIN sends \ {i} |-> sends[j]]

\* onChange of the textarea, which is disabled while streaming
SetInput ==
  /\ viewMode = "chat"
  /\ ~isStreaming
  /\ \E v \in ChatInputs : v # input /\ input' = v
  /\ UNCHANGED <<messages, isStreaming, streamingText, error, sends, issued,
                 received, viewMode, instance, localStorage, searchVars, renderVars, viewerVars, apiVars>>

\* sendMessage, up to `await fetch(...)`
SendMessage ==
  /\ viewMode = "chat"
  /\ ChatEvents < MaxChatEvents
  /\ IF trim(input) = "" \/ isStreaming
     THEN UNCHANGED <<messages, input, isStreaming, streamingText, error, sends,
                      issued, localStorage>>
     ELSE /\ messages' = Append(messages, userMessageOf(input))
          /\ localStorage' = saveEffect(messages', localStorage)
          /\ input' = ""
          /\ isStreaming' = TRUE
          /\ streamingText' = ""
          /\ error' = Null
          /\ issued' = issued + 1
          /\ sends' = [i \in DOMAIN sends \cup {issued + 1} |->
                         IF i \in DOMAIN sends THEN sends[i]
                         ELSE [pc |-> "awaitFetch",
                               instance |-> instance,
                               message |-> trim(input),
                               history |-> historyOf(messages),
                               delivered |-> <<>>]]   \* the body received so far
  /\ UNCHANGED <<received, viewMode, instance, searchVars, renderVars, viewerVars, apiVars>>

\* a finally block that leaves the streaming state as it is
FailedKeepsStreaming(i) ==
  /\ IF Live(i)
     THEN /\ error' = ErrorText
          /\ UNCHANGED <<isStreaming, streamingText>>
     ELSE UNCHANGED <<error, isStreaming, streamingText>>
  /\ sends' = Returned(i)
  /\ UNCHANGED <<messages, input, issued, received, viewMode, instance, localStorage,
                 searchVars, renderVars, viewerVars, apiVars>>

\* catch { setError(...) } finally { setIsStreaming(false); setStreamingText('') };
\* the updates of an unmounted component are dropped
Failed(i) ==
  /\ IF Live(i)
     THEN /\ error' = ErrorText
          /\ isStreaming' = FALSE
          /\ streamingText' = ""
     ELSE UNCHANGED <<error, isStreaming, streamingText>>
  /\ sends' = Returned(i)
  /\ UNCHANGED <<messages, input, issued, received, viewMode, instance, localStorage,
                 searchVars, renderVars, viewerVars, apiVars>>

\* fetch rejects: the request never reached the server
FetchReject ==
  \E i \in DOMAIN sends : sends[i].pc = "awaitFetch" /\ Failed(i)

\* fetch resolves with the status line of the reply; !response.ok throws
FetchResolve ==
  \E i \in DOMAIN sends :
    /\ sends[i].pc = "awaitFetch"
    /\ \E ok \in BOOLEAN :
         IF ok
         THEN /\ sends' = [sends EXCEPT ![i].pc = "awaitText"]
              /\ UNCHANGED <<messages, input, isStreaming, streamingText, error, issued,
                             received, viewMode, instance, localStorage, searchVars, renderVars, viewerVars, apiVars>>
         ELSE Failed(i)

\* one more line of the body arrives while response.text() is pending
Deliver ==
  \E i \in DOMAIN sends :
    /\ sends[i].pc = "awaitText"
    /\ ChatEvents < MaxChatEvents
    /\ received' = received + 1
    /\ \E line \in StreamLines :
         sends' = [sends EXCEPT ![i].delivered = Append(@, line)]
    /\ UNCHANGED <<messages, input, isStreaming, streamingText, error, issued,
                   viewMode, instance, localStorage, searchVars, renderVars, viewerVars, apiVars>>

\* the connection is lost before the body is complete: response.text() rejects
ConnectionLost ==
  \E i \in DOMAIN sends : sends[i].pc = "awaitText" /\ Failed(i)

\* the body of invocation i is complete: response.text() resolves, the loop
\* runs, the assistant message is appended and the finally block runs; the
\* updates of an unmounted component are dropped
BodyComplete(i) ==
  /\ sends[i].pc = "awaitText"
  /\ IF Live(i)
     THEN /\ messages' = Append(messages,
                           assistantMessageOf(consumeDelivered(sends[i].delivered)))
          /\ localStorage' = saveEffect(messages', localStorage)
          /\ isStreaming' = FALSE
          /\ streamingText' = ""
     ELSE UNCHANGED <<messages, localStorage, isStreaming, streamingText>>
  /\ sends' = Returned(i)
  /\ UNCHANGED <<input, error, issued, received, viewMode, instance, searchVars, renderVars, viewerVars, apiVars>>

BodyEnd == \E i \in DOMAIN sends : BodyComplete(i)

\* clearHistory; the button is rendered when there are messages.  The save
\* effect runs on the emptied list after removeItem
ClearHistory ==
  /\ viewMode = "chat"
  /\ Len(messages) > 0
  /\ messages' = <<>>
  /\ localStorage' = saveEffect(messages', NoItem)
  /\ UNCHANGED <<input, isStreaming, streamingText, error, sends, issued, received,
                 viewMode, instance, searchVars, renderVars, viewerVars, apiVars>>

\* the Search toggle: setViewMode('search') unmounts the chat component and
\* its state is gone; requests it issued stay outstanding
ShowSearch ==
  /\ viewMode = "chat"
  /\ ChatEvents < MaxChatEvents
  /\ viewMode' = "search"
  /\ messages' = <<>>
  /\ input' = ""
  /\ isStreaming' = FALSE
  /\ streamingText' = ""
  /\ error' = Null
  /\ UNCHANGED <<sends, issued, received, instance, localStorage, searchVars, renderVars, viewerVars, apiVars>>

\* the Chat toggle: setViewMode('chat') mounts a fresh chat component, whose
\* load effect reads the stored history; the save effect runs on the empty
\* list of the first render and on the loaded list of the next
ShowChat ==
  /\ viewMode = "search"
  /\ viewMode' = "chat"
  /\ instance' = instance + 1
  /\ messages' = IF localStorage.kind = "none" THEN <<>> ELSE localStorage.value
  /\ localStorage' = saveEffect(messages', saveEffect(<<>>, localStorage))
  /\ UNCHANGED <<input, isStreaming, streamingText, error, sends, issued, received,
                 searchVars, renderVars, viewerVars, apiVars>>

(***************************************************************************)
(* The search view of App: handleSearch.                                   *)
(***************************************************************************)
SearchInputs == {"", "  ", "IPC 302 "}

SearchErrorText == Str("Search failed. Please try again.")

\* the body of a 200 reply of the search endpoint to the query q
SearchData(q) ==
  [query |-> trim(q),
   statute_mapping |-> getStatuteMapping("302"),
   related_statutes |-> <<>>,
   kg_concepts |-> <<>>,
   results |-> <<>>,
   total_results |-> 0,
   lightrag_answer |-> Null]

\* onChange of the search input
SetQuery ==
  /\ viewMode = "search"
  /\ \E v \in SearchInputs : v # searchQuery /\ searchQuery' = v
  /\ UNCHANGED <<searchResults, loading, searchError, searches, searched, chatVarsOfChat, renderVars, viewerVars, apiVars>>

\* handleSearch, up to `await fetch(...)`: the Search button is disabled
\* while loading, the Enter key is not
HandleSearchCall ==
  /\ viewMode = "search"
  /\ ChatEvents < MaxChatEvents
  /\ IF trim(searchQuery) = ""
     THEN UNCHANGED <<loading, searchError, searches, searched>>
     ELSE /\ loading' = TRUE
          /\ searchError' = Null
          /\ searched' = searched + 1
          /\ searches' = [i \in DOMAIN searches \cup {searched + 1} |->
                            IF i \in DOMAIN searches THEN searches[i]
                            ELSE [pc |-> "awaitFetch", query |-> searchQuery, top_k |-> 10]]
  /\ UNCHANGED <<searchQuery, searchResults, chatVarsOfChat, renderVars, viewerVars, apiVars>>

\* invocation i of handleSearch is over
SearchCallReturned(i) == [j \in DOMAIN searches \ {i} |-> searches[j]]

\* a catch block that also drops the displayed results
SearchFailedClearsResults(i) ==
  /\ searchError' = SearchErrorText
  /\ searchResults' = Null
  /\ loading' = FALSE
  /\ searches' = SearchCallReturned(i)
  /\ UNCHANGED <<searchQuery, searched, chatVarsOfChat, renderVars, viewerVars, apiVars>>

\* catch { setError('Search failed. Please try again.') } finally { setLoading(false) }
SearchFailed(i) ==
  /\ searchError' = SearchErrorText
  /\ loading' = FALSE
  /\ searches' = SearchCallReturned(i)
  /\ UNCHANGED <<searchQuery, searchResults, searched, chatVarsOfChat, renderVars, viewerVars, apiVars>>

\* fetch rejects
SearchFetchReject ==
  \E i \in DOMAIN searches : searches[i].pc = "awaitFetch" /\ SearchFailed(i)

\* fetch resolves; !response.ok throws
SearchFetchResolve ==
  \E i \in DOMAIN searches :
    /\ searches[i].pc = "awaitFetch"
    /\ \E ok \in BOOLEAN :
         IF ok
         THEN /\ searches' = [searches EXCEPT ![i].pc = "awaitJson"]
              /\ UNCHANGED <<searchQuery, searchResults, loading, searchError, searched,
                             chatVarsOfChat, renderVars, viewerVars, apiVars>>
         ELSE SearchFailed(i)

\* response.json() rejects: the body is not JSON or the connection is lost
SearchJsonReject ==
  \E i \in DOMAIN searches : searches[i].pc = "awaitJson" /\ SearchFailed(i)

\* response.json() resolves: setResults(data), then the finally block
SearchComplete(i) ==
  /\ searches[i].pc = "awaitJson"
  /\ searchResults' = SearchData(searches[i].query)
  /\ loading' = FALSE
  /\ searches' = SearchCallReturned(i)
  /\ UNCHANGED <<searchQuery, searchError, searched, chatVarsOfChat, renderVars, viewerVars, apiVars>>

SearchJsonResolve == \E i \in DOMAIN searches : SearchComplete(i)

InitChat == ApiIdle /\ ChatMounted

NextChat ==
  \/ SetInput
  \/ SendMessage
  \/ FetchReject
  \/ FetchResolve
  \/ Deliver
  \/ ConnectionLost
  \/ BodyEnd
  \/ ClearHistory
  \/ ShowSearch
  \/ ShowChat
  \/ SetQuery
  \/ HandleSearchCall
  \/ SearchFetchReject
  \/ SearchFetchResolve
  \/ SearchJsonReject
  \/ SearchJsonResolve

SpecChat == InitChat /\ [][NextChat]_vars

\* every request settles: fetch resolves or rejects, and the body of a reply
\* ends or its connection is lost
SettleFairness ==
  /\ WF_vars(FetchReject \/ FetchResolve)
  /\ WF_vars(ConnectionLost \/ BodyEnd)

SpecChatSettles == InitChat /\ [][NextChat]_vars /\ SettleFairness


(***************************************************************************)
(* ChatInterface: renderMessageContent, applied to the content of every    *)
(* assistant message on screen.                                            *)
(***************************************************************************)
\* how many segments the content of a displayed message is made of, at most
MaxSegments == 3

\* the pieces assistant texts are made of: prose, whole citations and the
\* fragments of citations
Segments == {"See ", "[K](doc:k)", "[a]", "(doc:", "(doc:b)", ")", "[", "]"}

ContentsOf(n) == {join(p, "") : p \in [1..n -> Segments]}

Contents == UNION {ContentsOf(n) : n \in 0..MaxSegments}

\* the first position >= from where s has the character c; 0 when it has none
firstIndexFrom(s, c, from) ==
  IF \E i \in from..Len(s) : CharAt(s, i) = c
  THEN CHOOSE i \in from..Len(s) :
         CharAt(s, i) = c /\ \A j \in from..(i - 1) : CharAt(s, j) # c
  ELSE 0

\* /\[([^\]]+)\]\(doc:([^)]+)\)/ tried at position p of s: the positions of
\* the "]" and of the closing ")" of the match. Neither class can run past
\* its terminator, so the match at p is unique
citationAt(s, p) ==
  LET q == firstIndexFrom(s, "]", p + 1)
      r == firstIndexFrom(s, ")", q + 6)
  IN IF /\ p <= Len(s)
        /\ CharAt(s, p) = "["
        /\ q > p + 1
        /\ q + 5 <= Len(s)
        /\ SubSeq(s, q + 1, q + 5) = "(doc:"
        /\ r > q + 6
     THEN [found |-> TRUE, close |-> q, end |-> r]
     ELSE [found |-> FALSE, close |-> 0, end |-> 0]

\* String.prototype.match with the pattern: the leftmost match and its two
\* capture groups
matchCitation(s) ==
  IF \E p \in 1..Len(s) : citationAt(s, p).found
  THEN LET p == CHOOSE p \in 1..Len(s) :
                  /\ citationAt(s, p).found
                  /\ \A j \in 1..(p - 1) : ~citationAt(s, j).found
           m == citationAt(s, p)
       IN [found |-> TRUE, index |-> p, end |-> m.end,
           title |-> SubSeq(s, p + 1, m.close - 1),
           docId |-> SubSeq(s, m.close + 6, m.end - 1)]
  ELSE [found |-> FALSE, index |-> 0, end |-> 0, title |-> "", docId |-> ""]

\* content.split(/(\[[^\]]+\]\(doc:[^)]+\))/g): the text before each match,
\* the match itself (the pattern's one capture group), and the text after the
\* last match
RECURSIVE splitCitations(_)
splitCitations(s) ==
  LET m == matchCitation(s)
  IN IF m.found
     THEN <<SubSeq(s, 1, m.index - 1), SubSeq(s, m.index, m.end)>>
            \o splitCitations(SubSeq(s, m.end + 1, Len(s)))
     ELSE <<s>>

\* the element a part is rendered as: a button that opens the document, or a
\* span with the part's text
elementOf(part) ==
  LET m == matchCitation(part)
  IN IF m.found
     THEN [kind |-> "button", title |-> m.title, docId |-> m.docId]
     ELSE [kind |-> "span", text |-> part]

\* a rendering that trims the text around the citations
renderMessageContentTrimmed(content) ==
  LET parts == splitCitations(content)
  IN [parts |-> parts,
      elements |-> [i \in DOMAIN parts |->
                      IF matchCitation(parts[i]).found THEN elementOf(parts[i])
                      ELSE [kind |-> "span", text |-> trim(parts[i])]]]

renderMessageContent(content) ==
  LET parts == splitCitations(content)
  IN [parts |-> parts, elements |-> [i \in DOMAIN parts |-> elementOf(parts[i])]]

\* the chat component showing a stored conversation whose assistant message
\* has not been rendered yet
InitRender ==
  /\ ApiIdle
  /\ \E c \in Contents :
       /\ messages = <<[role |-> "user", content |-> "hi"],
                       [role |-> "assistant", content |-> c,
                        citations |-> Undefined, sources |-> Undefined]>>
       /\ localStorage = [kind |-> "item", value |-> messages]
  /\ input = ""
  /\ isStreaming = FALSE
  /\ streamingText = ""
  /\ error = Null
  /\ sends = <<>>
  /\ issued = 0
  /\ received = 0
  /\ viewMode = "chat"
  /\ instance = 1
  /\ searchQuery = ""
  /\ searchResults = Null
  /\ loading = FALSE
  /\ searchError = Null
  /\ searches = <<>>
  /\ searched = 0
  /\ rendered = NotRendered
  /\ ViewerClosed

\* the render of the message list: msg.role === 'assistant'
\* ? renderMessageContent(msg.content) : msg.content
RenderMessages ==
  /\ rendered = NotRendered
  /\ messages # <<>>
  /\ rendered' = [kind |-> "rendered",
                  items |-> [i \in DOMAIN messages |->
                               IF messages[i].role = "assistant"
                               THEN renderMessageContent(messages[i].content)
                               ELSE [parts |-> <<messages[i].content>>,
                                     elements |-> <<[kind |-> "text",
                                                     text |-> messages[i].content]>>]]]
  /\ UNCHANGED <<chatVarsOfChat, searchVars, viewerVars, apiVars>>

NextRender == RenderMessages

SpecRender == InitRender /\ [][NextRender]_vars

(***************************************************************************)
(* The chat opened in a browser that holds the history of an earlier       *)
(* visit: getSessionId finds the stored session id and the load effect     *)
(* reads chat_history_<sessionId>.                                         *)
(***************************************************************************)
\* how many messages the stored history holds, at most
MaxStored == 11

\* a stored conversation of n messages, questions and answers in turn
StoredHistory(n) ==
  [i \in 1..n |->
     IF i % 2 = 1
     THEN [role |-> "user", content |-> "q" \o ToString(i)]
     ELSE [role |-> "assistant", content |-> "a" \o ToString(i),
           citations |-> Arr(<<[title |-> "Case X", docId |-> "x"]>>),
           sources |-> Arr(<<[docId |-> "x", title |-> "Case X", score |-> 900]>>)]]

StoredHistories == {StoredHistory(n) : n \in (MaxStored - 1)..MaxStored}

\* App as mounted, after the load effect of the chat component
InitStored ==
  /\ ApiIdle
  /\ messages \in StoredHistories
  /\ localStorage = [kind |-> "item", value |-> messages]
  /\ input = ""
  /\ isStreaming = FALSE
  /\ streamingText = ""
  /\ error = Null
  /\ sends = <<>>
  /\ issued = 0
  /\ received = 0
  /\ viewMode = "chat"
  /\ instance = 1
  /\ searchQuery = ""
  /\ searchResults = Null
  /\ loading = FALSE
  /\ searchError = Null
  /\ searches = <<>>
  /\ searched = 0
  /\ rendered = NotRendered
  /\ ViewerClosed

SpecStored == InitStored /\ [][NextChat]_vars
(***************************************************************************)
(* Properties of the chat component.                                       *)
(***************************************************************************)
\* a line that carries the marker and whose payload parses as a JSON object
IsRecord(line) ==
  /\ startsWith(line, "data: ")
  /\ JSONparse(slice(line, 6)).ok
  /\ JSONparse(slice(line, 6)).value.kind = "object"

RecordOf(line) == JSONparse(slice(line, 6)).value

\* the text a line contributes: its text member if it is a record with one
TextOfLine(line) ==
  IF IsRecord(line) /\ "text" \in DOMAIN RecordOf(line).fields
  THEN RecordOf(line).fields.text.value
  ELSE ""

\* the texts of the records, concatenated in arrival order
ConcatTexts(lines) == join([i \in DOMAIN lines |-> TextOfLine(lines[i])], "")

\* the positions of the terminal records
Terminals(lines) ==
  {i \in DOMAIN lines :
     /\ IsRecord(lines[i])
     /\ "done" \in DOMAIN RecordOf(lines[i]).fields
     /\ RecordOf(lines[i]).fields.done = Bool(TRUE)}

\* member `name` of the last terminal record, undefined when there is none
\* or when it has no such member
LastTerminalMember(lines, name) ==
  IF Terminals(lines) = {} THEN Undefined
  ELSE LET last == CHOOSE i \in Terminals(lines) : \A j \in Terminals(lines) : j <= i
       IN Member(RecordOf(lines[last]), name)

\* C4: when the connection is lost after text records were delivered, an
\* assistant message with the text accumulated so far is still appended.
C4_LostConnectionKeepsText ==
  [][\A i \in DOMAIN sends :
       (/\ sends[i].pc = "awaitText"
        /\ Live(i)
        /\ Failed(i)
        /\ ConcatTexts(sends[i].delivered) # "")
         => /\ Len(messages') = Len(messages) + 1
            /\ messages'[Len(messages')].role = "assistant"
            /\ messages'[Len(messages')].content = ConcatTexts(sends[i].delivered)]_vars

\* C5: at most one chat request is outstanding, and while one is, no step
\* issues another request or appends another user message.
C5_SingleOutstandingRequest ==
  [][/\ Cardinality(InFlight') <= 1
     /\ InFlight # {} =>
          /\ issued' = issued
          /\ (viewMode = "chat" /\ viewMode' = "chat" /\ Len(messages') > Len(messages))
               => messages'[Len(messages')].role # "user"]_vars

\* the left fold over the lines of a body: the texts of the records in
\* arrival order, the metadata of the last terminal record
FoldOf(lines) ==
  [role |-> "assistant",
   content |-> ConcatTexts(lines),
   citations |-> LastTerminalMember(lines, "citations"),
   sources |-> LastTerminalMember(lines, "sources")]

FoldedBodies == [lines \in Bodies |-> FoldOf(lines)]

\* C7: the assistant message assembled from a complete body is the left fold
\* over its lines: the texts of the records in arrival order, the citations
\* and sources of the last terminal record, every other line skipped; the
\* mounted component appends that message.
C7_AssembledMessageIsFold ==
  [][\A i \in DOMAIN sends :
       BodyComplete(i)
         => LET folded == IF sends[i].delivered \in Bodies
                          THEN FoldedBodies[sends[i].delivered]
                          ELSE FoldOf(sends[i].delivered)
            IN /\ assistantMessageOf(consumeDelivered(sends[i].delivered)) = folded
               /\ Live(i) => messages' = Append(messages, folded)]_vars

\* a body of two text records was assembled in order
C7_Witness ==
  /\ issued = 1 /\ sends = <<>>
  /\ Len(messages) = 2
  /\ messages[2].role = "assistant"
  /\ messages[2].content = "Hello world"

(***************************************************************************)
(* Further properties of App: failures, history, citations.                *)
(***************************************************************************)
\* C15: after a chat send or a search fails with a transport or service
\* error, the text the user submitted is still in the input field.
C15_SubmittedTextKept ==
  [][/\ \A i \in DOMAIN sends :
          (Live(i) /\ Failed(i)) => trim(input') = sends[i].message
     /\ \A i \in DOMAIN searches :
          (SearchFailed(i) /\ searchQuery = searches[i].query)
            => searchQuery' = searches[i].query]_vars

\* C16: a failed search leaves the displayed results unchanged, a failed chat
\* send leaves the history unchanged and in order; each only sets the error.
C16_FailureKeepsResultsAndHistory ==
  [][/\ \A i \in DOMAIN searches :
          SearchFailed(i) => /\ searchResults' = searchResults
                             /\ searchError' = SearchErrorText
     /\ \A i \in DOMAIN sends :
          (Live(i) /\ Failed(i)) => /\ messages' = messages
                                    /\ localStorage' = localStorage
                                    /\ error' = ErrorText]_vars

\* results are displayed, a search has failed and a chat send has failed
C16_Witness ==
  /\ searchResults # Null
  /\ searchError = SearchErrorText
  /\ searches = <<>>
  /\ error = ErrorText
  /\ Len(messages) = 1
  /\ sends = <<>>

\* the message carries citations or sources
CarriesMetadata(m) ==
  \/ "citations" \in DOMAIN m /\ m.citations # Undefined
  \/ "sources" \in DOMAIN m /\ m.sources # Undefined

\* the messages the stored history holds
StoredMessages ==
  IF localStorage.kind = "none" THEN {}
  ELSE {localStorage.value[k] : k \in DOMAIN localStorage.value}

\* C17: a message of the history carries sources or citations only if its
\* role is assistant and a terminal record was observed in the response it
\* was assembled from; user messages never carry them.
C17_MetadataOnlyAfterTerminal ==
  /\ [](\A k \in DOMAIN messages :
          CarriesMetadata(messages[k]) => messages[k].role = "assistant")
  /\ [][\A k \in DOMAIN messages' :
          CarriesMetadata(messages'[k]) =>
            \/ \E j \in DOMAIN messages : messages[j] = messages'[k]
            \/ messages'[k] \in StoredMessages
            \/ \E i \in DOMAIN sends :
                 /\ BodyComplete(i)
                 /\ Terminals(sends[i].delivered) # {}]_vars

\* the history holds a user message and an assistant message that carries
\* the citations and sources of the terminal record of its response
C17_Witness ==
  /\ Len(messages) = 2
  /\ messages[1].role = "user" /\ ~CarriesMetadata(messages[1])
  /\ messages[2].role = "assistant"
  /\ messages[2].citations # Undefined
  /\ messages[2].sources # Undefined


(***************************************************************************)
(* Claims about renderMessageContent.                                      *)
(***************************************************************************)
\* t reads [title](doc:id) with a title free of "]" and an id free of ")",
\* neither of them empty
IsCitationSpan(t) ==
  \E q \in 3..(Len(t) - 7) :
    /\ CharAt(t, 1) = "["
    /\ CharAt(t, q) = "]"
    /\ \A j \in 2..(q - 1) : CharAt(t, j) # "]"
    /\ SubSeq(t, q + 1, q + 5) = "(doc:"
    /\ CharAt(t, Len(t)) = ")"
    /\ \A j \in (q + 6)..(Len(t) - 1) : CharAt(t, j) # ")"

HasCitationSpan(t) ==
  \E a \in 1..Len(t) : \E b \in a..Len(t) :
    CharAt(t, a) = "[" /\ CharAt(t, b) = ")" /\ IsCitationSpan(SubSeq(t, a, b))

\* the assistant messages on screen, once rendered
RenderedAssistant ==
  IF rendered = NotRendered THEN {}
  ELSE {i \in DOMAIN messages : messages[i].role = "assistant"}

\* C18: the parts of a rendered text, put together in order, are the text;
\* a part is rendered as a citation exactly when it is a span
\* [title](doc:id), and then with that title and that id; every other part
\* holds no such span and is shown as it is
C18_PartsReproduceTextAndCitations ==
  \A i \in RenderedAssistant :
    LET r == rendered.items[i]
    IN /\ join(r.parts, "") = messages[i].content
       /\ DOMAIN r.elements = DOMAIN r.parts
       /\ \A k \in DOMAIN r.parts :
            IF IsCitationSpan(r.parts[k])
            THEN /\ r.elements[k].kind = "button"
                 /\ r.parts[k] =
                      "[" \o r.elements[k].title \o "](doc:" \o r.elements[k].docId \o ")"
            ELSE /\ r.elements[k] = [kind |-> "span", text |-> r.parts[k]]
                 /\ ~HasCitationSpan(r.parts[k])

\* a text of two citations next to each other has been rendered: five parts,
\* three of them empty
C18_Witness ==
  /\ rendered # NotRendered
  /\ messages[2].content = "[K](doc:k)[a](doc:b)"
  /\ Len(rendered.items[2].parts) = 5
  /\ rendered.items[2].elements[2] = [kind |-> "button", title |-> "K", docId |-> "k"]
  /\ rendered.items[2].elements[4] = [kind |-> "button", title |-> "a", docId |-> "b"]

(***************************************************************************)
(* Claims about the history sent with a chat request.                      *)
(***************************************************************************)
\* this step is a sendMessage that issues a request
IssuesRequest == issued' = issued + 1

\* C19: the history of a chat request holds at most 10 entries: the last
\* messages of the conversation as it was before the new user message, in
\* their order, each with its role and content and nothing else; the new
\* user message is appended to the conversation and goes out in the message
\* field only
C19_HistoryIsLastTenPrior ==
  [][IssuesRequest =>
       LET sent == sends'[issued']
           h == sent.history
           m == Len(messages)
           k == Len(h)
       IN /\ k = Min(m, 10)
          /\ \A j \in 1..k :
               h[j] = [role |-> messages[m - k + j].role,
                       content |-> messages[m - k + j].content]
          /\ Len(messages') = m + 1
          /\ SubSeq(messages', 1, m) = messages
          /\ messages'[m + 1].role = "user"
          /\ sent.message = messages'[m + 1].content]_vars

\* a request has gone out from a conversation of more than 10 messages: its
\* history is the 10 before the new one, without the oldest and without
\* the metadata of the answers
C19_Witness ==
  \E i \in DOMAIN sends :
    LET m == Len(messages) - 1
    IN /\ m = MaxStored
       /\ Len(sends[i].history) = 10
       /\ sends[i].history[1].content = messages[m - 9].content
       /\ sends[i].history[1].content # messages[1].content
       /\ sends[i].message = messages[m + 1].content
       /\ \E j \in 1..10 :
            /\ messages[m - 10 + j].role = "assistant"
            /\ "citations" \in DOMAIN messages[m - 10 + j]
            /\ DOMAIN sends[i].history[j] = {"role", "content"}

(***************************************************************************)
(* Claims about the display while a response is being received.            *)
(***************************************************************************)
\* the text of the fragments invocation i has received so far
ReceivedText(i) == consumeDelivered(sends[i].delivered).fullText

\* C22: while a response is being received, the streaming bubble shows the
\* text accumulated from the fragments received so far, so partial text is
\* on display before the response is complete.
C22_PartialTextDisplayed ==
  \A i \in DOMAIN sends :
    (Live(i) /\ sends[i].pc = "awaitText") => streamingText = ReceivedText(i)

(***************************************************************************)
(* Claims about the shape of the chat history.                             *)
(***************************************************************************)
\* C23: the chat history alternates user and assistant messages and starts
\* with a user message, so that every assistant message directly follows
\* the user message it answers.
C23_HistoryAlternates ==
  \A j \in DOMAIN messages :
    messages[j].role = (IF j % 2 = 1 THEN "user" ELSE "assistant")

(***************************************************************************)
(* Claims about concurrent searches.                                       *)
(***************************************************************************)
\* C24: in the search view the loading flag is true in every state in
\* which a search request is still in flight, whatever the order of
\* submissions (button or Enter key) and of response arrivals.
C24_LoadingWhileInFlight ==
  DOMAIN searches # {} => loading = TRUE

(***************************************************************************)
(* Claims about the end of an exchange.                                    *)
(***************************************************************************)
\* invocation i of sendMessage returns in this step, its component mounted
SettlesLive(i) == Live(i) /\ i \notin DOMAIN sends'

\* C25: when the request of an accepted sendMessage settles, isStreaming is
\* false and streamingText empty afterwards, whether the reply succeeded,
\* was not 2xx or the transport failed, and a message is appended only when
\* the body was read to its end, and then it is one assistant message;
\* given that requests settle, the streaming state is always left.
C25_StreamingEnds ==
  /\ [][\A i \in DOMAIN sends :
          SettlesLive(i) =>
            /\ isStreaming' = FALSE
            /\ streamingText' = ""
            /\ messages' # messages =>
                 /\ sends[i].pc = "awaitText"
                 /\ error' = Null
                 /\ Len(messages') = Len(messages) + 1
                 /\ SubSeq(messages', 1, Len(messages)) = messages
                 /\ messages'[Len(messages')].role = "assistant"
            /\ error' # Null => messages' = messages]_vars
  /\ (isStreaming ~> ~isStreaming)

\* an exchange has failed: the streaming state is left, the error is shown
\* and the history holds the user message alone
C25_Witness ==
  /\ issued = 1
  /\ sends = <<>>
  /\ viewMode = "chat" /\ instance = 1
  /\ isStreaming = FALSE /\ streamingText = ""
  /\ error = ErrorText
  /\ Len(messages) = 1 /\ messages[1].role = "user"

(***************************************************************************)
(* Claims about the stored history.                                        *)
(***************************************************************************)
\* the chat component is mounted in this step
Mounts == viewMode = "search" /\ viewMode' = "chat"

\* C26: a non-empty message list is always the stored history of the
\* session; mounting the component leaves the stored history as it is;
\* clearHistory removes the stored entry, and an absent entry stays absent
\* until a message is appended.
C26_StoredHistoryFollowsMessages ==
  /\ [](Len(messages) > 0 => localStorage = [kind |-> "item", value |-> messages])
  /\ [][Mounts => localStorage' = localStorage]_vars
  /\ [][(viewMode = "chat" /\ viewMode' = "chat"
           /\ Len(messages) > 0 /\ messages' = <<>>)
          => localStorage'.kind = "none"]_vars
  /\ [][(localStorage.kind = "none" /\ localStorage'.kind # "none")
          => /\ Len(messages') = Len(messages) + 1
             /\ SubSeq(messages', 1, Len(messages)) = messages]_vars

\* the history was cleared while a reply was pending, the view was left and
\* entered again with no stored entry, and the entry is still absent
C26_Witness ==
  /\ viewMode = "chat"
  /\ instance = 2
  /\ issued = 1
  /\ messages = <<>>
  /\ localStorage.kind = "none"

(***************************************************************************)
(* Claims about the scoring formula.                                       *)
(***************************************************************************)
\* how many times the token occurs in the text, as plain text, counted
\* from the left without overlap
RECURSIVE Occurrences(_, _)
Occurrences(text, token) ==
  LET i == indexOf(text, token)
  IN IF i = 0 THEN 0
     ELSE 1 + Occurrences(SubSeq(text, i + Len(token), Len(text)), token)

\* what a token adds to the score of document i by the stated formula, in
\* ten-thousandths: 0.4 for the title, 0.35 once for the keywords and 0.02
\* per occurrence in the body, at most 0.15
StatedContribution(i, token) ==
  (IF includes(LowerTitle[i], token) THEN 4000 ELSE 0)
  + (IF \E k \in DOMAIN LowerKeywords[i] :
          includes(LowerKeywords[i][k], token) \/ includes(token, LowerKeywords[i][k])
     THEN 3500 ELSE 0)
  + Min(200 * Occurrences(LowerContent[i], token), 1500)

StatedContributions ==
  [i \in DOMAIN DOCUMENTS |-> [w \in ModelWords |-> StatedContribution(i, w)]]

RECURSIVE StatedSum(_, _)
StatedSum(i, tokens) ==
  IF tokens = <<>> THEN 0
  ELSE StatedContributions[i][Head(tokens)] + StatedSum(i, Tail(tokens))

\* min(1.0, sum), rounded to 3 decimals: thousandths
StatedScore(i, tokens) == (Min(10000, StatedSum(i, tokens)) + 5) \div 10

\* C21: the score of every returned document is the stated formula: the sum
\* over the query tokens of the title, keyword and body contributions,
\* clamped to 1.0 once after the sum and rounded to 3 decimals.
C21_ScoreIsStatedFormula ==
  (pc = "awaitLLM") =>
    \A r \in DOMAIN frame.results :
      frame.results[r].score =
        StatedScore(CorpusIndex(frame.results[r]), queryWordsOf(frame.query))

(***************************************************************************)
(* App's viewingDoc and the DocumentViewer component: fetchDocument.       *)
(***************************************************************************)
\* how many document requests are issued, at most
MaxViews == 3

\* the documents a citation or a result card can name
DocIds == {"puttaswamy_2017", "jacob_mathew_2005"}

\* the body of a 200 reply of GET /document/<docId>
DocumentOf(docId) ==
  LET i == CHOOSE i \in DOMAIN DOCUMENTS : DOCUMENTS[i].doc_id = docId
  IN [doc_id |-> docId, title |-> DOCUMENTS[i].title, content |-> DOCUMENTS[i].content]

\* the statuses of the replies of the model
DocStatuses == {200, 404, 500}

NotFoundText == Str("Document not found")
LoadErrorText == Str("Failed to load document")

\* the component that issued invocation i is still mounted
ViewerLive(i) == viewingDoc # Null /\ fetches[i].instance = viewerInstance

\* fetchDocument up to `await fetch(...)`, run by the effect of the component
\* whose mount is `inst`, for the docId of its render
FetchIssued(inst, docId) ==
  /\ fetched' = fetched + 1
  /\ fetches' = [i \in DOMAIN fetches \cup {fetched + 1} |->
                   IF i \in DOMAIN fetches THEN fetches[i]
                   ELSE [pc |-> "awaitFetch", instance |-> inst, docId |-> docId]]

\* handleViewDocument: setViewingDoc({ docId, highlight }).  With no viewer
\* open the component mounts with its initial state and its effect runs
\* fetchDocument; with a viewer open the same component gets the new docId,
\* and the effect runs again only when the docId differs
ViewDocument ==
  \E docId \in DocIds :
    /\ fetched < MaxViews
    /\ viewingDoc' = [docId |-> docId]
    /\ IF viewingDoc = Null
       THEN /\ viewerInstance' = viewerInstance + 1
            /\ viewerDocument' = Null
            /\ viewerLoading' = TRUE
            /\ viewerError' = Null
            /\ FetchIssued(viewerInstance + 1, docId)
       ELSE IF viewingDoc.docId # docId
       THEN /\ viewerLoading' = TRUE
            /\ viewerError' = Null
            /\ FetchIssued(viewerInstance, docId)
            /\ UNCHANGED <<viewerInstance, viewerDocument>>
       ELSE UNCHANGED <<viewerInstance, viewerDocument, viewerLoading, viewerError,
                        fetches, fetched>>
    /\ UNCHANGED <<chatVarsOfChat, searchVars, renderVars, apiVars>>

\* onClose: setViewingDoc(null) unmounts the viewer and its state is gone;
\* requests it issued stay outstanding
CloseViewer ==
  /\ viewingDoc # Null
  /\ viewingDoc' = Null
  /\ viewerDocument' = Null
  /\ viewerLoading' = TRUE
  /\ viewerError' = Null
  /\ UNCHANGED <<viewerInstance, fetches, fetched,
                 chatVarsOfChat, searchVars, renderVars, apiVars>>

\* the async function returns: invocation i is over
FetchReturned(i) == [j \in DOMAIN fetches \ {i} |-> fetches[j]]

\* invocation i ends with the error text e (or with none) and, when it read
\* a document, with setDocument(doc); finally { setLoading(false) }.  The
\* updates of an unmounted component are dropped
FetchDocumentEnds(i, doc, e) ==
  /\ IF ViewerLive(i)
     THEN /\ viewerDocument' = IF doc = Null THEN viewerDocument ELSE doc
          /\ viewerError' = IF e = Null THEN viewerError ELSE e
          /\ viewerLoading' = FALSE
     ELSE UNCHANGED <<viewerDocument, viewerError, viewerLoading>>
  /\ fetches' = FetchReturned(i)
  /\ UNCHANGED <<viewingDoc, viewerInstance, fetched,
                 chatVarsOfChat, searchVars, renderVars, apiVars>>

\* fetch rejects: catch { setError('Failed to load document') }
DocFetchReject ==
  \E i \in DOMAIN fetches :
    fetches[i].pc = "awaitFetch" /\ FetchDocumentEnds(i, Null, LoadErrorText)

\* fetch resolves: 404 sets 'Document not found' and returns, every other
\* status that is not ok throws, an ok reply goes on to response.json()
DocFetchResolve ==
  \E i \in DOMAIN fetches :
    /\ fetches[i].pc = "awaitFetch"
    /\ \E status \in DocStatuses :
         IF status = 200
         THEN /\ fetches' = [fetches EXCEPT ![i].pc = "awaitJson"]
              /\ UNCHANGED <<viewingDoc, viewerInstance, viewerDocument, viewerLoading,
                             viewerError, fetched,
                             chatVarsOfChat, searchVars, renderVars, apiVars>>
         ELSE IF status = 404
         THEN FetchDocumentEnds(i, Null, NotFoundText)
         ELSE FetchDocumentEnds(i, Null, LoadErrorText)

\* response.json() rejects
DocJsonReject ==
  \E i \in DOMAIN fetches :
    fetches[i].pc = "awaitJson" /\ FetchDocumentEnds(i, Null, LoadErrorText)

\* response.json() resolves: setDocument(doc)
DocJsonResolve ==
  \E i \in DOMAIN fetches :
    /\ fetches[i].pc = "awaitJson"
    /\ FetchDocumentEnds(i, DocumentOf(fetches[i].docId), Null)

InitViewer == ApiIdle /\ ChatMounted

NextViewer ==
  \/ ViewDocument
  \/ CloseViewer
  \/ DocFetchReject
  \/ DocFetchResolve
  \/ DocJsonReject
  \/ DocJsonResolve

SpecViewer == InitViewer /\ [][NextViewer]_vars

(***************************************************************************)
(* Claims about the document viewer.                                       *)
(***************************************************************************)
\* every request of the mounted viewer has returned, and it issued one
ViewerSettled ==
  /\ viewingDoc # Null
  /\ \A i \in DOMAIN fetches : ~ViewerLive(i)

\* C27: once the document requests of the viewer have completed, loading is
\* false, the viewer holds a document or an error and not both, and a held
\* document is the one of the current docId.
C27_ViewerHoldsCurrentDocumentOrError ==
  ViewerSettled =>
    /\ viewerLoading = FALSE
    /\ (viewerDocument # Null) # (viewerError # Null)
    /\ viewerDocument # Null => viewerDocument.doc_id = viewingDoc.docId
====
